---- MODULE Spec2Model ----
(***************************************************************************)
(* A model of the databend client: the pagination protocol of APIClient    *)
(* (core/src/client.rs), the merge of the session echo, and the            *)
(* RestAPIConnection / RestAPIRows layer built on it                       *)
(* (driver/src/rest_api.rs).                                               *)
(*                                                                         *)
(* One caller runs one operation against a server that answers every       *)
(* request nondeterministically.  An async fn is a sequence of steps, one  *)
(* per stretch of code between two suspension points.                      *)
(***************************************************************************)
EXTENDS Integers, Sequences, FiniteSets, TLC

\* ------------------------------------------------------------------ bounds
\* The longest pagination chain the server serves.
MaxPages == 3
\* The most rows in one page.
MaxRows == 2
\* The tasks that share the client, and the replies they handle in all.
MaxTasks == 2
MaxReplies == 3
\* lexemes of a statement handed to QueryKind::from
MaxTokens == 2
\* statements on the line the REPL reads
MaxStatements == 2
\* options in the query string of the DSN
MaxOptions == 2
\* lines on stdin
MaxLines == 2
\* Err items after which the consumer of a stream pulls again
MaxRepolls == 1

\* ------------------------------------------------------- program constants
\* `let mut retries = 3;` of the start-query loops.
StartRetries == 3
\* `ExponentialBackoff::from_millis(10).map(jitter).take(3)`: the number of
\* delays of the retry strategy of query_page.
PageRetryDelays == 3

\* ------------------------------------------------------------------ values
\* Option<T>
None == <<>>
Some(x) == <<x>>
IsSome(o) == o # <<>>
Unwrap(o) == o[1]

Last(s) == s[Len(s)]

\* Result<T>
Ok(v) == [ok |-> TRUE, kind |-> "Ok", val |-> v]
Err(kind, payload) == [ok |-> FALSE, kind |-> kind, val |-> payload]

\* BTreeMap<String, String> as a set of <<key, value>> pairs, keys unique.
MapGet(m, k) == IF \E p \in m : p[1] = k
                THEN Some((CHOOSE p \in m : p[1] = k)[2])
                ELSE None

\* SessionState { database, settings }
SessionState(db, settings) == [database |-> db, settings |-> settings]

\* uuid::Uuid::new_v4(): the n-th id generated by this client.
gen_query_id(n) == <<"uuid", n>>
\* An id of the server's own choosing.
ServerId == <<"server-id">>

\* QueryResponse as the server builds it for page k of a query.  Rows and
\* schemas are tagged with the page (and the position in it) so that a lost,
\* repeated or misplaced row shows; write_progress.rows is the server's
\* running total, which grows from page to page.
PageUri(k) == <<"page", k>>
PageData(k, n) == [j \in 1..n |-> <<k, j>>]
PageSchema(k) == <<"schema", k>>
PageWriteRows(k) == k
QueryResponse(k, n, more, id, kill, error, session) ==
    [id       |-> id,
     schema   |-> PageSchema(k),
     data     |-> PageData(k, n),
     next_uri |-> IF more THEN Some(PageUri(k + 1)) ELSE None,
     kill_uri |-> IF kill THEN Some(<<"kill", id>>) ELSE None,
     stats    |-> PageWriteRows(k),
     error    |-> error,
     session  |-> session]
NoResponse == QueryResponse(0, 0, FALSE, ServerId, FALSE, None, None)

\* The text of a reply that is not a 200.
BodyText(status) == <<"text", status>>
\* A reply to an HTTP request: `failed` is a transport failure or a timeout
\* (send() returns Err), otherwise the reply has a status, a text and, when
\* the text parses as a QueryResponse, a body.
Reply(failed, status, parses, body) ==
    [failed |-> failed, status |-> status, text |-> BodyText(status),
     parses |-> parses, body |-> body]
TransportFailure == Reply(TRUE, 0, FALSE, NoResponse)
HttpError(status) == Reply(FALSE, status, FALSE, NoResponse)
Unparsable == Reply(FALSE, 200, FALSE, NoResponse)
Page(body) == Reply(FALSE, 200, TRUE, body)
NoReply == Reply(TRUE, -1, FALSE, NoResponse)
\* Whether the request succeeded: a 200 whose body parses and has no error.
Succeeded(r) == ~r.failed /\ r.status = 200 /\ r.parses /\ ~IsSome(r.body.error)

\* ------------------------------------------------------------------ server
\* The session echoes the server puts in the replies of a query.
PageSessions(k) ==
    {None, Some(SessionState(Some(<<"db", k>>),
                             Some({<<"warehouse", <<"wh", k>>>>})))}
\* The error object of a 200 reply.
QueryError == [code |-> 1065, message |-> "error"]

\* The 200 bodies the server may give to POST /v1/query: page 1 of a chain,
\* under the id the client sent or one of its own, or a body with an error.
FirstPages(qid) ==
    {QueryResponse(1, n, more, id, kill, None, s) :
        n \in 0..MaxRows, more \in {m \in BOOLEAN : m => MaxPages > 1},
        id \in {qid, ServerId}, kill \in BOOLEAN, s \in PageSessions(1)}
    \cup {QueryResponse(1, 0, FALSE, qid, FALSE, Some(QueryError), s) :
        s \in PageSessions(1)}
\* The 200 bodies the server may give to GET page k of a query whose first
\* page was `first`: a query keeps its id and its kill uri.
NextPages(k, first) ==
    {QueryResponse(k, n, more, first.id, IsSome(first.kill_uri), None, s) :
        n \in 0..MaxRows, more \in {m \in BOOLEAN : m => k < MaxPages},
        s \in PageSessions(k)}
    \cup {QueryResponse(k, 0, FALSE, first.id, FALSE, Some(QueryError), s) :
        s \in PageSessions(k)}
\* Every reply to POST /v1/query and to GET next_uri.
StartReplies(qid) ==
    {TransportFailure, HttpError(503), HttpError(500), Unparsable}
    \cup {Page(b) : b \in FirstPages(qid)}
PageReplies(uri, first) ==
    {TransportFailure, HttpError(404), HttpError(500), HttpError(503), Unparsable}
    \cup {Page(b) : b \in NextPages(uri[2], first)}

\* ------------------------------------------------------------------- state
VARIABLES
    op,             \* the operation the caller runs
    pc,             \* where the caller is in it
    sq,             \* the frame of start_query
    fut,            \* the query_page future
    resp,           \* the caller's `resp` / `result` local
    saved,          \* the caller's `schema` and `data` locals
    result,         \* what the operation returned
    uuids,          \* the number of query ids generated
    session_state,  \* APIClient::session_state
    database,       \* APIClient::database
    warehouse,      \* APIClient::warehouse
    http,           \* history: the requests made, in order (a retry sends
                    \* the same request again and adds no entry)
    served,         \* history: the 200 bodies the server gave, in order
    clean,          \* history: every reply so far was a 200 without error
    rows,           \* the RestAPIRows stream (its next_page is `fut`)
    yielded,        \* history: the items the stream has yielded, in order
    tasks,          \* the handle_session call of each task that shares the client
    echoed,         \* history: the session echoes handed to handle_session
    finished,       \* history: the echoes whose merge has completed, in order
    dsn,            \* the database and the warehouse the DSN gave
    cli,            \* the bendsql session
    url,            \* the DSN handed to from_dsn
    json,           \* the QueryRequest handed to serde_json and its text
    repolls,        \* the Err items after which the consumer of a stream pulls again
    parked,         \* the task the runtime is not polling, of two that run a query
    mutex           \* the three locks of the client and the calls that take them

vars == <<op, pc, sq, fut, resp, saved, result, uuids,
          session_state, database, warehouse, http, served, clean,
          rows, yielded, tasks, echoed, finished, dsn, cli, url, json,
          repolls, parked, mutex>>
sessionVars == <<session_state, database, warehouse>>
netVars == <<http, served, clean>>
streamVars == <<rows, yielded>>
mergeVars == <<tasks, echoed, finished, dsn>>
cliVars == <<cli>>
\* The variables only the specification of one function uses.
restVars == <<url, json, repolls, parked, mutex>>
callVars == <<op, pc, sq, fut, resp, saved, result, uuids>>

\* A request as the server sees it.
Request(method, uri, qid, wh, session, stage) ==
    [method |-> method, uri |-> uri, query_id |-> qid, warehouse |-> wh,
     session |-> session, stage_attachment |-> stage]
QueryUri == <<"v1/query">>

NoResult == [ok |-> FALSE, kind |-> "None", val |-> None]
\* The frame of a start-query call and the query_page future; `seen` is the
\* history of the call: the status of every reply so far (0 for a send()
\* that returned Err), and `sent` the number of GETs sent.
NoFrame == [pc |-> "idle", query_id |-> None, retries |-> 0,
            resp |-> NoReply, result |-> NoResult, seen |-> <<>>]
NoFuture == [pc |-> "none", query_id |-> None, next_uri |-> None,
             delays |-> 0, reply |-> NoReply, result |-> NoResult,
             sent |-> 0, seen |-> <<>>]
NoSaved == [schema |-> PageSchema(0), data |-> <<>>]

\* ---------------------------------------------------------- session merge
\* handle_session, block by block: each block takes one lock.
MergeSessionState(state, session) == session
\* Mutant: the cached database is overwritten by every echo.
MergeDatabase_Always(db, session) == session.database

MergeDatabase(db, session) ==
    IF IsSome(session.database) THEN session.database ELSE db
\* Mutant: the cached warehouse is overwritten by every echo.
MergeWarehouse_Always(wh, session) ==
    IF IsSome(session.settings)
    THEN MapGet(Unwrap(session.settings), "warehouse")
    ELSE None
MergeWarehouse(wh, session) ==
    IF IsSome(session.settings)
       /\ IsSome(MapGet(Unwrap(session.settings), "warehouse"))
    THEN Some(Unwrap(MapGet(Unwrap(session.settings), "warehouse")))
    ELSE wh
\* handle_session(&resp.session) run to completion by the one caller.
handle_session(session) ==
    IF session = None
    THEN UNCHANGED sessionVars
    ELSE /\ session_state' = MergeSessionState(session_state, Unwrap(session))
         /\ database' = MergeDatabase(database, Unwrap(session))
         /\ warehouse' = MergeWarehouse(warehouse, Unwrap(session))

\* ------------------------------------------------------------ start_query
\* The caller enters start_query.
StartQueryFrame == [NoFrame EXCEPT !.pc = "post"]

\* One POST /v1/query and its reply `r`; `?` returns on a transport failure.
Post(qid, retries, r) ==
    /\ served' = IF r.parses THEN Append(served, r.body) ELSE served
    /\ clean' = (clean /\ Succeeded(r))
    /\ sq' = IF r.failed
             THEN [sq EXCEPT !.pc = "ret", !.query_id = Some(qid),
                             !.seen = Append(sq.seen, r.status),
                             !.result = Err("Transport", None)]
             ELSE [sq EXCEPT !.pc = "loop", !.query_id = Some(qid),
                             !.seen = Append(sq.seen, r.status),
                             !.retries = retries, !.resp = r]

\* Mutant: the loop stops one retry short.
StartQueryRetries_OneShort(status, retries) ==
    status # 200 /\ ~(status # 503 \/ retries <= 1)

\* The head of `while resp.status() != StatusCode::OK`: whether the loop
\* goes round once more.
StartQueryRetries(status, retries) ==
    status # 200 /\ ~(status # 503 \/ retries <= 0)

\* start_query up to the first reply: snapshot the session, generate the
\* query id, make the headers, POST.
StartQueryPost ==
    /\ op \in {"query", "exec", "query_row", "query_iter_ext"}
    /\ sq.pc = "post"
    /\ uuids' = uuids + 1
    /\ http' = Append(http, Request("POST", QueryUri, gen_query_id(uuids + 1),
                                    warehouse, Some(session_state), None))
    /\ \E r \in StartReplies(gen_query_id(uuids + 1)) :
          Post(gen_query_id(uuids + 1), StartRetries, r)
    /\ UNCHANGED <<streamVars, mergeVars, cliVars, restVars, op, pc, fut, resp, saved, result, sessionVars>>

\* One more round of the loop: the same request is sent again.
StartQueryRetry ==
    /\ op \in {"query", "exec", "query_row", "query_iter_ext"}
    /\ sq.pc = "loop"
    /\ StartQueryRetries(sq.resp.status, sq.retries)
    /\ \E r \in StartReplies(Unwrap(sq.query_id)) :
          Post(Unwrap(sq.query_id), sq.retries - 1, r)
    /\ UNCHANGED <<streamVars, mergeVars, cliVars, restVars, op, pc, fut, resp, saved, result, uuids, sessionVars, http>>

\* What start_query returns for the reply it left the loop with, and
\* whether it merges the session echo of that reply.
StartQueryResult(r) ==
    IF r.status # 200 THEN Err("Request", r.text)
    ELSE IF ~r.parses THEN Err("Decode", None)
    ELSE IF IsSome(r.body.error) THEN Err("InvalidResponse", Unwrap(r.body.error))
    ELSE Ok(r.body)
StartQueryMerges(r) ==
    r.status = 200 /\ r.parses /\ ~IsSome(r.body.error)

\* The loop is left: the status check, the parse, the error check, the
\* merge of the session echo, the return.
StartQueryReturn ==
    /\ op \in {"query", "exec", "query_row", "query_iter_ext"}
    /\ sq.pc = "loop"
    /\ ~StartQueryRetries(sq.resp.status, sq.retries)
    /\ sq' = [sq EXCEPT !.pc = "ret", !.result = StartQueryResult(sq.resp)]
    /\ IF StartQueryMerges(sq.resp)
       THEN handle_session(sq.resp.body.session)
       ELSE UNCHANGED sessionVars
    /\ UNCHANGED <<streamVars, mergeVars, cliVars, restVars, op, pc, fut, resp, saved, result, uuids, netVars>>

\* ------------------------------------------------------------- query_page
\* query_page(query_id, next_uri) as a future that has not run yet.
QueryPageFuture(query_id, next_uri) ==
    [NoFuture EXCEPT !.pc = "new", !.query_id = Some(query_id),
                     !.next_uri = Some(next_uri), !.delays = PageRetryDelays]

\* Mutant: one retry more than the strategy has delays.
QueryPageRetries_OneMore(r, delays) == r.failed /\ delays >= 0

\* Retry::spawn runs the request again after an Err while the strategy has a
\* delay left; any reply with a status is Ok to it.
QueryPageRetries(r, delays) == r.failed /\ delays > 0

\* The GET of the future `f` goes out: the first one after make_headers, a
\* later one after the delay the strategy gave.
SendGet(f) ==
    /\ http' = IF f.pc = "new"
               THEN Append(http, Request("GET", Unwrap(f.next_uri),
                                         Unwrap(f.query_id), warehouse, None,
                                         None))
               ELSE http
    /\ fut' = [f EXCEPT !.pc = "inflight", !.sent = f.sent + 1]
QueryPageSend ==
    /\ fut.pc \in {"new", "sleep"}
    /\ SendGet(fut)
    /\ UNCHANGED <<streamVars, mergeVars, cliVars, restVars, op, pc, sq, resp, saved, result, uuids, sessionVars, served,
                   clean>>

\* The server (or the network, or the timeout) answers the GET in flight.
ServerReplyPage ==
    /\ fut.pc = "inflight"
    /\ \E r \in PageReplies(Unwrap(fut.next_uri), served[1]) :
          /\ fut' = [fut EXCEPT !.pc = "replied", !.reply = r,
                                !.seen = Append(fut.seen, r.status)]
          /\ served' = IF r.parses THEN Append(served, r.body) ELSE served
          /\ clean' = (clean /\ Succeeded(r))
    /\ UNCHANGED <<streamVars, mergeVars, cliVars, restVars, op, pc, sq, resp, saved, result, uuids, sessionVars, http>>

\* The request failed and the strategy has a delay left: sleep, then again.
QueryPageRetry ==
    /\ fut.pc = "replied"
    /\ QueryPageRetries(fut.reply, fut.delays)
    /\ fut' = [fut EXCEPT !.pc = "sleep", !.delays = fut.delays - 1]
    /\ UNCHANGED <<streamVars, mergeVars, cliVars, restVars, op, pc, sq, resp, saved, result, uuids, sessionVars, netVars>>

\* Mutant: a 404 is reported like any other status.
QueryPageResult_No404(r) ==
    IF r.failed THEN Err("Transport", None)
    ELSE IF r.status # 200 THEN Err("Request", r.text)
    ELSE IF ~r.parses THEN Err("Decode", None)
    ELSE IF IsSome(r.body.error) THEN Err("InvalidResponse", Unwrap(r.body.error))
    ELSE Ok(r.body)

\* What query_page returns for the reply Retry::spawn ended with, and
\* whether it merges the session echo of that reply.
QueryPageResult(r) ==
    IF r.failed THEN Err("Transport", None)
    ELSE IF r.status # 200
         THEN IF r.status = 404 THEN Err("SessionTimeout", r.text)
                                ELSE Err("Request", r.text)
    ELSE IF ~r.parses THEN Err("Decode", None)
    ELSE IF IsSome(r.body.error) THEN Err("InvalidResponse", Unwrap(r.body.error))
    ELSE Ok(r.body)
QueryPageMerges(r) == ~r.failed /\ r.status = 200 /\ r.parses

\* Retry::spawn has ended: the rest of query_page runs, with its merge of
\* the session echo.
QueryPageEnds ==
    /\ fut.pc = "replied"
    /\ ~QueryPageRetries(fut.reply, fut.delays)
    /\ IF QueryPageMerges(fut.reply)
       THEN handle_session(fut.reply.body.session)
       ELSE UNCHANGED sessionVars

\* query_page returns to a caller that awaits it.
QueryPageReturn ==
    /\ op \in {"query", "exec", "query_row", "insert_with_stage", "load_data"}
    /\ QueryPageEnds
    /\ fut' = [fut EXCEPT !.pc = "ret", !.result = QueryPageResult(fut.reply)]
    /\ UNCHANGED <<streamVars, mergeVars, cliVars, restVars, op, pc, sq, resp, saved, result, uuids, netVars>>

\* Where the caller is once query or insert_with_stage has returned:
\* load_data goes on after `insert_with_stage(..).await?`.
Returned == IF op = "load_data" THEN "inserted" ELSE "done"
\* insert_with_stage is entered: called by itself, or by load_data after
\* the upload.
InsertEntry ==
    \/ op = "insert_with_stage" /\ pc = "begin"
    \/ op = "load_data" /\ pc = "insert"

\* ------------------------------------------ APIClient::query, wait_for_query
\* query: `let resp = self.start_query(sql).await?`.
QueryStart ==
    /\ op = "query" /\ pc = "begin"
    /\ sq' = StartQueryFrame
    /\ pc' = "start_query"
    /\ UNCHANGED <<streamVars, mergeVars, cliVars, restVars, op, fut, resp, saved, result, uuids, sessionVars, netVars>>

\* start_query has returned: `?`, then wait_for_query is entered.
QueryStarted ==
    /\ op = "query" /\ pc = "start_query" /\ sq.pc = "ret"
    /\ sq' = NoFrame
    /\ IF sq.result.ok
       THEN /\ resp' = sq.result.val
            /\ pc' = "wait_for_query"
            /\ UNCHANGED result
       ELSE /\ result' = sq.result
            /\ pc' = Returned
            /\ UNCHANGED resp
    /\ UNCHANGED <<streamVars, mergeVars, cliVars, restVars, op, fut, saved, uuids, sessionVars, netVars>>

\* wait_for_query: `if let Some(next_uri) = &resp.next_uri`, the schema and
\* the data of the first response are kept and the next page is asked for;
\* without a next_uri the response is returned as it is.
WaitForQueryEnter ==
    /\ op \in {"query", "insert_with_stage", "load_data"} /\ pc = "wait_for_query"
    /\ IF IsSome(resp.next_uri)
       THEN /\ saved' = [schema |-> resp.schema, data |-> resp.data]
            /\ fut' = QueryPageFuture(resp.id, Unwrap(resp.next_uri))
            /\ pc' = "first_page"
            /\ UNCHANGED result
       ELSE /\ result' = Ok(resp)
            /\ pc' = Returned
            /\ UNCHANGED <<saved, fut>>
    /\ UNCHANGED <<streamVars, mergeVars, cliVars, restVars, op, sq, resp, uuids, sessionVars, netVars>>

\* `let mut resp = self.query_page(&resp.id, next_uri).await?;`
WaitForQueryFirstPage ==
    /\ op \in {"query", "insert_with_stage", "load_data"} /\ pc = "first_page" /\ fut.pc = "ret"
    /\ fut' = NoFuture
    /\ IF fut.result.ok
       THEN /\ resp' = fut.result.val
            /\ pc' = "loop"
            /\ UNCHANGED result
       ELSE /\ result' = fut.result
            /\ pc' = Returned
            /\ UNCHANGED resp
    /\ UNCHANGED <<streamVars, mergeVars, cliVars, restVars, op, sq, saved, uuids, sessionVars, netVars>>

\* `while let Some(next_uri) = &resp.next_uri`: one more page is asked for,
\* or the loop ends and the kept schema and the gathered data are put into
\* the last response.
WaitForQueryLoop ==
    /\ op \in {"query", "insert_with_stage", "load_data"} /\ pc = "loop"
    /\ IF IsSome(resp.next_uri)
       THEN /\ fut' = QueryPageFuture(resp.id, Unwrap(resp.next_uri))
            /\ pc' = "next_page"
            /\ UNCHANGED result
       ELSE /\ result' = Ok([resp EXCEPT !.schema = saved.schema,
                                         !.data = saved.data])
            /\ pc' = Returned
            /\ UNCHANGED fut
    /\ UNCHANGED <<streamVars, mergeVars, cliVars, restVars, op, sq, resp, saved, uuids, sessionVars, netVars>>

\* `resp = self.query_page(&resp.id, next_uri).await?;
\*  data.append(&mut resp.data);`
WaitForQueryNextPage ==
    /\ op \in {"query", "insert_with_stage", "load_data"} /\ pc = "next_page" /\ fut.pc = "ret"
    /\ fut' = NoFuture
    /\ IF fut.result.ok
       THEN /\ resp' = fut.result.val
            /\ saved' = [saved EXCEPT !.data = saved.data \o fut.result.val.data]
            /\ pc' = "loop"
            /\ UNCHANGED result
       ELSE /\ result' = fut.result
            /\ pc' = Returned
            /\ UNCHANGED <<resp, saved>>
    /\ UNCHANGED <<streamVars, mergeVars, cliVars, restVars, op, sq, uuids, sessionVars, netVars>>

\* ------------------------------------------------------ insert_with_stage
\* The stage attachment of the INSERT.
StageAttachment == [location |-> "@~/client/load/ts"]

\* Mutant: the loop goes round once more when no retry is left.
InsertRetries_OneMore(status, retries) ==
    status # 200 /\ ~(status # 503 \/ retries < 0)

\* The head of the POST loop of insert_with_stage.
InsertRetries(status, retries) ==
    status # 200 /\ ~(status # 503 \/ retries <= 0)

\* insert_with_stage up to the first reply: snapshot the session, attach the
\* stage, generate the query id, make the headers, POST.
InsertWithStagePost ==
    /\ InsertEntry
    /\ pc' = "post"
    /\ uuids' = uuids + 1
    /\ http' = Append(http, Request("POST", QueryUri, gen_query_id(uuids + 1),
                                    warehouse, Some(session_state),
                                    Some(StageAttachment)))
    /\ \E r \in StartReplies(gen_query_id(uuids + 1)) :
          Post(gen_query_id(uuids + 1), StartRetries, r)
    /\ UNCHANGED <<streamVars, mergeVars, cliVars, restVars, op, fut, resp, saved, result, sessionVars>>

\* One more round of its loop.
InsertWithStageRetry ==
    /\ op \in {"insert_with_stage", "load_data"} /\ pc = "post"
    /\ sq.pc = "loop"
    /\ InsertRetries(sq.resp.status, sq.retries)
    /\ \E r \in StartReplies(Unwrap(sq.query_id)) :
          Post(Unwrap(sq.query_id), sq.retries - 1, r)
    /\ UNCHANGED <<streamVars, mergeVars, cliVars, restVars, op, pc, fut, resp, saved, result, uuids, sessionVars, http>>

\* The POST failed in transit: `?`.
InsertWithStageFailed ==
    /\ op \in {"insert_with_stage", "load_data"} /\ pc = "post"
    /\ sq.pc = "ret"
    /\ sq' = NoFrame
    /\ result' = sq.result
    /\ pc' = Returned
    /\ UNCHANGED <<streamVars, mergeVars, cliVars, restVars, op, fut, resp, saved, uuids, sessionVars, netVars>>

\* The loop is left: the status check and the parse, then wait_for_query is
\* entered with the response.
InsertWithStagePosted ==
    /\ op \in {"insert_with_stage", "load_data"} /\ pc = "post"
    /\ sq.pc = "loop"
    /\ ~InsertRetries(sq.resp.status, sq.retries)
    /\ sq' = NoFrame
    /\ IF sq.resp.status # 200
       THEN /\ result' = Err("InvalidResponse",
                             [code |-> sq.resp.status, message |-> sq.resp.text])
            /\ pc' = Returned
            /\ UNCHANGED resp
       ELSE IF ~sq.resp.parses
       THEN /\ result' = Err("Decode", None)
            /\ pc' = Returned
            /\ UNCHANGED resp
       ELSE /\ resp' = sq.resp.body
            /\ pc' = "wait_for_query"
            /\ UNCHANGED result
    /\ UNCHANGED <<streamVars, mergeVars, cliVars, restVars, op, fut, saved, uuids, sessionVars, netVars>>

\* ------------------------------------------------- RestAPIConnection::exec
\* `let mut resp = self.client.start_query(sql).await?;`
ExecStart ==
    /\ op = "exec" /\ pc = "begin"
    /\ sq' = StartQueryFrame
    /\ pc' = "start_query"
    /\ UNCHANGED <<streamVars, mergeVars, cliVars, restVars, op, fut, resp, saved, result, uuids, sessionVars, netVars>>

ExecStarted ==
    /\ op = "exec" /\ pc = "start_query" /\ sq.pc = "ret"
    /\ sq' = NoFrame
    /\ IF sq.result.ok
       THEN /\ resp' = sq.result.val
            /\ pc' = "loop"
            /\ UNCHANGED result
       ELSE /\ result' = sq.result
            /\ pc' = "done"
            /\ UNCHANGED resp
    /\ UNCHANGED <<streamVars, mergeVars, cliVars, restVars, op, fut, saved, uuids, sessionVars, netVars>>

\* Mutant: the count is the number of rows of the last page.
ExecCount_Rows(r) == Len(r.data)

\* What exec returns once a response has no next_uri.
ExecCount(r) == r.stats

\* `while let Some(next_uri) = resp.next_uri`: the next page is asked for,
\* or `Ok(resp.stats.progresses.write_progress.rows as i64)`.
ExecLoop ==
    /\ op = "exec" /\ pc = "loop"
    /\ IF IsSome(resp.next_uri)
       THEN /\ fut' = QueryPageFuture(resp.id, Unwrap(resp.next_uri))
            /\ pc' = "next_page"
            /\ UNCHANGED result
       ELSE /\ result' = Ok(ExecCount(resp))
            /\ pc' = "done"
            /\ UNCHANGED fut
    /\ UNCHANGED <<streamVars, mergeVars, cliVars, restVars, op, sq, resp, saved, uuids, sessionVars, netVars>>

\* `resp = self.client.query_page(&resp.id, &next_uri).await?;`
ExecNextPage ==
    /\ op = "exec" /\ pc = "next_page" /\ fut.pc = "ret"
    /\ fut' = NoFuture
    /\ IF fut.result.ok
       THEN /\ resp' = fut.result.val
            /\ pc' = "loop"
            /\ UNCHANGED result
       ELSE /\ result' = fut.result
            /\ pc' = "done"
            /\ UNCHANGED resp
    /\ UNCHANGED <<streamVars, mergeVars, cliVars, restVars, op, sq, saved, uuids, sessionVars, netVars>>

\* ---------------------------- RestAPIConnection::query_row, wait_for_data
\* Row::try_from((schema, &row)): the row read against the schema.
Row(schema, row) == [schema |-> schema, values |-> row]

\* The replies to POST kill_uri.
KillReplies == {TransportFailure, HttpError(500), Reply(FALSE, 200, FALSE, NoResponse)}

QueryRowStart ==
    /\ op = "query_row" /\ pc = "begin"
    /\ sq' = StartQueryFrame
    /\ pc' = "start_query"
    /\ UNCHANGED <<streamVars, mergeVars, cliVars, restVars, op, fut, resp, saved, result, uuids, sessionVars, netVars>>

\* start_query has returned: `?`, then wait_for_data is entered; a first
\* response with rows is returned at once, otherwise its schema is kept.
QueryRowStarted ==
    /\ op = "query_row" /\ pc = "start_query" /\ sq.pc = "ret"
    /\ sq' = NoFrame
    /\ IF sq.result.ok
       THEN /\ resp' = sq.result.val
            /\ IF sq.result.val.data # <<>>
               THEN pc' = "kill" /\ UNCHANGED saved
               ELSE /\ pc' = "loop"
                    /\ saved' = [saved EXCEPT !.schema = sq.result.val.schema]
            /\ UNCHANGED result
       ELSE /\ result' = sq.result
            /\ pc' = "done"
            /\ UNCHANGED <<resp, saved>>
    /\ UNCHANGED <<streamVars, mergeVars, cliVars, restVars, op, fut, uuids, sessionVars, netVars>>

\* wait_for_data: `while let Some(next_uri) = result.next_uri`: the next
\* page is asked for, or the loop ends and the kept schema is put back.
WaitForDataLoop ==
    /\ op = "query_row" /\ pc = "loop"
    /\ IF IsSome(resp.next_uri)
       THEN /\ fut' = QueryPageFuture(resp.id, Unwrap(resp.next_uri))
            /\ pc' = "next_page"
            /\ UNCHANGED resp
       ELSE /\ resp' = [resp EXCEPT !.schema = saved.schema]
            /\ pc' = "kill"
            /\ UNCHANGED fut
    /\ UNCHANGED <<streamVars, mergeVars, cliVars, restVars, op, sq, saved, result, uuids, sessionVars, netVars>>

\* Mutant: the loop has no break.
WaitForDataBreaks_Never(r) == FALSE

\* Whether wait_for_data leaves its loop after the page `r`.
WaitForDataBreaks(r) == r.data # <<>>

\* `result = self.client.query_page(..).await?;
\*  if !result.data.is_empty() { break; }`
WaitForDataPage ==
    /\ op = "query_row" /\ pc = "next_page" /\ fut.pc = "ret"
    /\ fut' = NoFuture
    /\ IF fut.result.ok
       THEN IF WaitForDataBreaks(fut.result.val)
            THEN /\ resp' = [fut.result.val EXCEPT !.schema = saved.schema]
                 /\ pc' = "kill"
                 /\ UNCHANGED result
            ELSE /\ resp' = fut.result.val
                 /\ pc' = "loop"
                 /\ UNCHANGED result
       ELSE /\ result' = fut.result
            /\ pc' = "done"
            /\ UNCHANGED resp
    /\ UNCHANGED <<streamVars, mergeVars, cliVars, restVars, op, sq, saved, uuids, sessionVars, netVars>>

\* What kill_query returns for the reply to its POST.
KillQueryResult(r) ==
    IF r.failed THEN Err("Transport", None)
    ELSE IF r.status # 200
         THEN Err("InvalidResponse", [code |-> r.status, message |-> r.text])
    ELSE Ok(None)

\* `match resp.kill_uri`: kill_query POSTs to the kill uri, and without a
\* kill uri query_row returns an error; `?` on either.
QueryRowKill ==
    /\ op = "query_row" /\ pc = "kill"
    /\ IF IsSome(resp.kill_uri)
       THEN /\ http' = Append(http, Request("POST", Unwrap(resp.kill_uri),
                                            resp.id, warehouse, None, None))
            /\ \E r \in KillReplies :
                  /\ clean' = (clean /\ ~r.failed /\ r.status = 200)
                  /\ IF KillQueryResult(r).ok
                     THEN pc' = "row" /\ UNCHANGED result
                     ELSE pc' = "done" /\ result' = KillQueryResult(r)
       ELSE /\ result' = Err("InvalidResponse", "kill_uri is empty")
            /\ pc' = "done"
            /\ UNCHANGED <<http, clean>>
    /\ UNCHANGED <<streamVars, mergeVars, cliVars, restVars, op, sq, fut, resp, saved, uuids, sessionVars, served>>

\* What query_row returns for the response wait_for_data gave it.
QueryRowResult(r) ==
    IF r.data = <<>> THEN Ok(None) ELSE Ok(Some(Row(r.schema, r.data[1])))

QueryRowReturn ==
    /\ op = "query_row" /\ pc = "row"
    /\ result' = QueryRowResult(resp)
    /\ pc' = "done"
    /\ UNCHANGED <<streamVars, mergeVars, cliVars, restVars, op, sq, fut, resp, saved, uuids, sessionVars, netVars>>

\* ------------------------------------ query_iter_ext, RestAPIRows::poll_next
NoRows == [schema |-> PageSchema(0), data |-> <<>>, query_id |-> ServerId,
           next_uri |-> None]
\* RowWithStats::Row, RowWithStats::Stats and an Err, as stream items.
RowItem(row) == [item |-> "Row", val |-> row]
\* Mutant: the statistics of the first response are yielded again.
StatsItem_First(stats) == [item |-> "Stats", val |-> PageWriteRows(1)]

StatsItem(stats) == [item |-> "Stats", val |-> stats]
ErrItem(e) == [item |-> "Err", val |-> e]
ErrorCount(items) == Cardinality({i \in DOMAIN items : items[i].item = "Err"})

\* RestAPIRows::from_response
from_response(r) ==
    [schema |-> r.schema, data |-> r.data, query_id |-> r.id,
     next_uri |-> r.next_uri]

QueryIterStart ==
    /\ op = "query_iter_ext" /\ pc = "begin"
    /\ sq' = StartQueryFrame
    /\ pc' = "start_query"
    /\ UNCHANGED <<streamVars, mergeVars, cliVars, restVars, op, fut, resp, saved, result, uuids,
                   sessionVars, netVars>>

\* start_query has returned: `?`, then the stream is made of the response
\* and handed to the consumer.
QueryIterStarted ==
    /\ op = "query_iter_ext" /\ pc = "start_query" /\ sq.pc = "ret"
    /\ sq' = NoFrame
    /\ IF sq.result.ok
       THEN /\ rows' = from_response(sq.result.val)
            /\ result' = Ok("RowStatsIterator")
            /\ pc' = "stream"
       ELSE /\ result' = sq.result
            /\ pc' = "done"
            /\ UNCHANGED rows
    /\ UNCHANGED <<yielded, mergeVars, cliVars, restVars, op, fut, resp, saved, uuids,
                   sessionVars, netVars>>

\* Mutant: the stream goes on fetching after the consumer has dropped it.
Pulls_Detached ==
    op = "query_iter_ext" /\ pc \in {"stream", "dropped"} /\ ErrorCount(yielded) <= repolls

\* The consumer pulls until the stream ends or yields an error
\* (`rows.next().await.unwrap()?`, `row.unwrap()`); a consumer that handles
\* an Err item and calls next() again pulls on after `repolls` of them.
Pulls == op = "query_iter_ext" /\ pc = "stream" /\ ErrorCount(yielded) <= repolls

\* Mutant: the row is taken from the back of the buffer.
PopFront_Back(data) ==
    [row |-> data[Len(data)], rest |-> SubSeq(data, 1, Len(data) - 1)]

\* Which buffered row poll_next takes, and what is left.
PopFront(data) == [row |-> Head(data), rest |-> Tail(data)]

\* poll_next, `if let Some(row) = self.data.pop_front()`: the row is read
\* against the schema and yielded.
PollNextRow ==
    /\ Pulls
    /\ rows.data # <<>>
    /\ rows' = [rows EXCEPT !.data = PopFront(rows.data).rest]
    /\ yielded' = Append(yielded, RowItem(Row(rows.schema, PopFront(rows.data).row)))
    /\ UNCHANGED <<mergeVars, cliVars, restVars, callVars, sessionVars, netVars>>

\* poll_next with an empty buffer and no fetch in flight, `Some(ref next_uri)`:
\* the future is made and poll_next calls itself, which polls the future for
\* the first time: its GET goes out, and the poll is Pending.
PollNextSpawn ==
    /\ Pulls
    /\ rows.data = <<>>
    /\ fut.pc = "none"
    /\ IsSome(rows.next_uri)
    /\ SendGet(QueryPageFuture(rows.query_id, Unwrap(rows.next_uri)))
    /\ UNCHANGED <<streamVars, mergeVars, cliVars, restVars, op, pc, sq, resp, saved, result, uuids,
                   sessionVars, served, clean>>

\* poll_next polls a future whose request failed and is to be retried: the
\* poll is Pending, and a later poll sends the GET again.
PollNextRetry ==
    /\ Pulls
    /\ rows.data = <<>>
    /\ \/ /\ fut.pc = "replied"
          /\ QueryPageRetries(fut.reply, fut.delays)
          /\ fut' = [fut EXCEPT !.pc = "sleep", !.delays = fut.delays - 1]
          /\ UNCHANGED http
       \/ /\ fut.pc = "sleep"
          /\ SendGet(fut)
    /\ UNCHANGED <<streamVars, mergeVars, cliVars, restVars, op, pc, sq, resp, saved, result, uuids,
                   sessionVars, served, clean>>

\* Mutant: the schema of the page replaces the schema of the stream.
InstallPage_WithSchema(r) ==
    [rows EXCEPT !.data = r.data, !.query_id = r.id, !.next_uri = r.next_uri,
                 !.schema = r.schema]

\* What poll_next makes of a page: the fields it installs, the item it yields.
InstallPage(r) ==
    [rows EXCEPT !.data = r.data, !.query_id = r.id, !.next_uri = r.next_uri]

\* poll_next polls a future that is Ready: a page is put into the buffer
\* and its Stats are yielded, an error is yielded; next_page is None again.
PollNextPage ==
    /\ Pulls
    /\ rows.data = <<>>
    /\ QueryPageEnds
    /\ fut' = NoFuture
    /\ LET r == QueryPageResult(fut.reply) IN
          IF r.ok
          THEN /\ rows' = InstallPage(r.val)
               /\ yielded' = Append(yielded, StatsItem(r.val.stats))
          ELSE /\ yielded' = Append(yielded, ErrItem(r))
               /\ UNCHANGED rows
    /\ UNCHANGED <<mergeVars, cliVars, restVars, op, pc, sq, resp, saved, result, uuids, netVars>>

\* poll_next with an empty buffer, no fetch and no next_uri: Ready(None).
PollNextEnd ==
    /\ Pulls
    /\ rows.data = <<>>
    /\ fut.pc = "none"
    /\ rows.next_uri = None
    /\ pc' = "ended"
    /\ UNCHANGED <<streamVars, mergeVars, cliVars, restVars, op, sq, fut, resp, saved, result, uuids,
                   sessionVars, netVars>>

\* Mutant: the fetch outlives the stream, as a spawned task would.
DropPage_Detached(f) == f

\* What becomes of next_page when the stream is dropped: RestAPIRows owns
\* the boxed future and has no Drop of its own, so the future is dropped
\* with it.
DropPage(f) == NoFuture

\* The consumer drops the stream before its end.
DropStream ==
    /\ op = "query_iter_ext" /\ pc = "stream"
    /\ pc' = "dropped"
    /\ fut' = DropPage(fut)
    /\ UNCHANGED <<streamVars, mergeVars, cliVars, restVars, op, sq, resp, saved, result, uuids,
                   sessionVars, netVars>>

\* The consumer has handled the items it pulled, an Err among them, and goes
\* on pulling.  The items and the requests sent so far leave the histories,
\* which keeps the states of a stream that is pulled for ever finite.
HandleItems ==
    /\ op = "query_iter_ext" /\ pc = "stream" /\ fut.pc = "none"
    /\ yielded # <<>>
    /\ yielded' = <<>>
    /\ http' = <<>>
    /\ UNCHANGED <<rows, mergeVars, cliVars, restVars, callVars, sessionVars, served, clean>>

\* ------------------------------------------- two queries on one client
\* What one task that runs query_iter_ext on a clone of the client owns: its
\* locals, the frame of its start_query, the RestAPIRows it got (schema,
\* data, query_id and next_uri in `rows`, next_page in `fut`), the items it
\* has pulled, and its side of the wire: the requests it sent and the pages
\* the server gave it.  The clones share the session and the id generator.
TaskState(t) ==
    [task |-> t, op |-> op, pc |-> pc, sq |-> sq, fut |-> fut, resp |-> resp,
     saved |-> saved, result |-> result, rows |-> rows, yielded |-> yielded,
     http |-> http, served |-> served, clean |-> clean]
NoTask ==
    [task |-> 0, op |-> "none", pc |-> "begin", sq |-> NoFrame, fut |-> NoFuture,
     resp |-> NoResponse, saved |-> NoSaved, result |-> NoResult, rows |-> NoRows,
     yielded |-> <<>>, http |-> <<>>, served |-> <<>>, clean |-> TRUE]

\* Mutant: next_page is kept in the client the streams share.
Resumed_SharedPage(t) == [t EXCEPT !.fut = IF t.pc = "stream" THEN fut ELSE t.fut]

\* What a task finds when it is polled again: what it owned when it was
\* left.
Resumed(t) == t

\* Where the running task is Pending, or over: it awaits the reply to its
\* POST or to its GET.  Between two such points it touches nothing the
\* other task can see.
AtAwait ==
    \/ pc = "start_query" /\ sq.pc = "loop"
    \/ fut.pc = "inflight"
    \/ pc \in {"ended", "done"}

\* The running task is Pending at an await and the runtime polls the other
\* task.
Yield ==
    /\ parked.task # 0
    /\ AtAwait
    /\ parked.pc \notin {"ended", "done"}
    /\ parked' = TaskState(3 - parked.task)
    /\ LET t == Resumed(parked) IN
          /\ op' = t.op /\ pc' = t.pc /\ sq' = t.sq /\ fut' = t.fut
          /\ resp' = t.resp /\ saved' = t.saved /\ result' = t.result
          /\ rows' = t.rows /\ yielded' = t.yielded
          /\ http' = t.http /\ served' = t.served /\ clean' = t.clean
    /\ UNCHANGED <<uuids, sessionVars, mergeVars, cliVars, url, json, repolls, mutex>>

\* ------------------------------------- handle_session in concurrent tasks
Tasks == 1..MaxTasks
NoMerge == [pc |-> "idle", session |-> SessionState(None, None)]

\* The session echo of the i-th reply.
Echoes(i) ==
    {SessionState(db, st) :
        db \in {None, Some(<<"db", i>>)},
        st \in {None, Some({}), Some({<<"warehouse", <<"wh", i>>>>})}}

\* APIClient::current_database, current_warehouse
current_database == database
current_warehouse == warehouse

\* handle_session(&resp.session) is called by task t for one more reply;
\* `None => return`.
HandleSessionEnter(t) ==
    /\ op = "handle_session"
    /\ tasks[t].pc = "idle"
    /\ Len(echoed) < MaxReplies
    /\ \E s \in {None} \cup {Some(e) : e \in Echoes(Len(echoed) + 1)} :
          /\ echoed' = Append(echoed, s)
          /\ tasks' = IF IsSome(s)
                      THEN [tasks EXCEPT ![t] = [pc |-> "state", session |-> Unwrap(s)]]
                      ELSE tasks
    /\ UNCHANGED <<streamVars, finished, dsn, cliVars, restVars, callVars, sessionVars, netVars>>

\* The same, called while no other merge is under way.
HandleSessionEnterAlone(t) ==
    /\ \A u \in Tasks : tasks[u].pc = "idle"
    /\ HandleSessionEnter(t)

\* The block under the session_state lock.
HandleSessionState(t) ==
    /\ tasks[t].pc = "state"
    /\ session_state' = MergeSessionState(session_state, tasks[t].session)
    /\ tasks' = [tasks EXCEPT ![t].pc = "database"]
    /\ UNCHANGED <<streamVars, echoed, finished, dsn, cliVars, restVars, callVars, database,
                   warehouse, netVars>>

\* `if session.database.is_some()`: the block under the database lock.
HandleSessionDatabase(t) ==
    /\ tasks[t].pc = "database"
    /\ database' = MergeDatabase(database, tasks[t].session)
    /\ tasks' = [tasks EXCEPT ![t].pc = "warehouse"]
    /\ UNCHANGED <<streamVars, echoed, finished, dsn, cliVars, restVars, callVars, session_state,
                   warehouse, netVars>>

\* `if let Some(v) = settings.get("warehouse")`: the block under the
\* warehouse lock; handle_session returns.
HandleSessionWarehouse(t) ==
    /\ tasks[t].pc = "warehouse"
    /\ warehouse' = MergeWarehouse(warehouse, tasks[t].session)
    /\ tasks' = [tasks EXCEPT ![t] = NoMerge]
    /\ finished' = Append(finished, tasks[t].session)
    /\ UNCHANGED <<streamVars, echoed, dsn, cliVars, restVars, callVars, session_state, database,
                   netVars>>

\* The request of the start_query that follows the merges so far: its session
\* is `Some(self.session_state().await)` and make_headers reads the cached
\* warehouse.  One request follows each reply.
StartQueryAfterMerge ==
    /\ op = "handle_session"
    /\ \A t \in Tasks : tasks[t].pc = "idle"
    /\ Len(http) < Len(echoed)
    /\ uuids' = uuids + 1
    /\ http' = Append(http, Request("POST", QueryUri, gen_query_id(uuids + 1),
                                    warehouse, Some(session_state), None))
    /\ UNCHANGED <<streamVars, mergeVars, cliVars, restVars, op, pc, sq, fut, resp,
                   saved, result, sessionVars, served, clean>>

\* ------------------------------------------ the locks of the shared client
\* `warehouse`, `database` and `session_state` are each an Arc<Mutex<..>>
\* that the clones of a client share.  A call is the list of the steps it has
\* still to take: lock().await, an access under the guard, the drop of the
\* guard, the send of a request and the await of its reply.  A guard that is
\* dropped right after the access is dropped in the step of the access.
Locks == <<"session_state", "database", "warehouse">>
LockOrder(l) == CHOOSE i \in DOMAIN Locks : Locks[i] = l
Lock(l) == <<"lock", l>>
Unlock(l) == <<"unlock", l>>
Under(l, access) == <<Lock(l), <<access, l>>, Unlock(l)>>

\* session_state(): `self.session_state.lock().await.clone()`; the guard is
\* a temporary of the statement.
SessionStateSteps == Under("session_state", "clone")

\* Mutant: the guard on the warehouse lives as long as the headers.
MakeHeadersSteps_GuardKept == <<Lock("warehouse"), <<"clone", "warehouse">>>>

\* make_headers: the guard on the warehouse is dropped at the return.
MakeHeadersSteps == Under("warehouse", "clone")

\* current_warehouse, current_database
CurrentWarehouseSteps == Under("warehouse", "clone")
CurrentDatabaseSteps == Under("database", "clone")

\* Mutant: the warehouse is locked first and kept while the other two are
\* taken.
HandleSessionSteps_WarehouseFirst(session) ==
    IF session = None THEN <<>>
    ELSE <<Lock("warehouse")>> \o Under("session_state", "write")
         \o Under("database", "write")
         \o <<<<"write", "warehouse">>, Unlock("warehouse")>>

\* handle_session: `None => return`, then one block for each lock, the
\* second and the third only when the echo has the field.
HandleSessionSteps(session) ==
    IF session = None THEN <<>>
    ELSE Under("session_state", "write")
         \o (IF IsSome(Unwrap(session).database)
             THEN Under("database", "write") ELSE <<>>)
         \o (IF /\ IsSome(Unwrap(session).settings)
                /\ IsSome(MapGet(Unwrap(Unwrap(session).settings), "warehouse"))
             THEN Under("warehouse", "write") ELSE <<>>)

\* The steps of a call up to the reply of its request.
Send(method) == <<<<"send", method>>, <<"await", method>>>>
StepsOf(call) ==
    CASE call = "start_query" -> SessionStateSteps \o MakeHeadersSteps \o Send("POST")
      [] call = "query_page" -> MakeHeadersSteps \o Send("GET")
      [] call = "kill_query" -> MakeHeadersSteps \o Send("POST")
      [] call = "upload_to_stage_with_stream" -> MakeHeadersSteps \o Send("PUT")
      [] call = "current_warehouse" -> CurrentWarehouseSteps
      [] call = "current_database" -> CurrentDatabaseSteps
      [] OTHER -> <<>>
LockCalls ==
    {"start_query", "query_page", "kill_query", "upload_to_stage_with_stream",
     "handle_session", "current_warehouse", "current_database"}
\* The calls that merge the session echo of the reply they get.
Merges(call) == call \in {"start_query", "query_page"}

NoCall == [call |-> "none", steps |-> <<>>, echo |-> None,
           session |-> None, warehouse |-> None, database |-> None]
NoMutex == [held |-> [l \in {Locks[i] : i \in DOMAIN Locks} |-> 0],
            task |-> [t \in Tasks |-> NoCall]]
HeldBy(t) == {l \in DOMAIN mutex.held : mutex.held[l] = t}
NextStep(t) == Head(mutex.task[t].steps)
Popped(t) == [mutex EXCEPT !.task[t].steps = Tail(@)]
\* The access is done, and the guard is dropped if that is the next step.
Accessed(t) ==
    LET rest == Tail(mutex.task[t].steps) IN
    IF rest # <<>> /\ Head(rest) = Unlock(NextStep(t)[2])
    THEN [mutex EXCEPT !.task[t].steps = Tail(rest), !.held[NextStep(t)[2]] = 0]
    ELSE Popped(t)
\* The session echo of one more reply, if the server sends one: with a
\* database and a warehouse, with a warehouse only, or with neither.
NextEchoes ==
    {None} \cup (IF Len(echoed) < MaxReplies
                 THEN {Some(e) : e \in {f \in Echoes(Len(echoed) + 1) :
                                          /\ IsSome(f.settings)
                                          /\ IsSome(f.database) => Unwrap(f.settings) # {}}}
                 ELSE {})

\* A call that has no step left returns, and its locals are dropped.
CallReturned(m, t) ==
    IF m.task[t].steps = <<>>
    THEN [m EXCEPT !.task[t] = [NoCall EXCEPT !.call = m.task[t].call]]
    ELSE m

\* Task t makes a call on its clone of the client; the tasks are numbered in
\* the order of their calls.
MutexCall(t) ==
    /\ op = "locks"
    /\ mutex.task[t].call = "none"
    /\ \A u \in 1..(t - 1) : mutex.task[u].call # "none"
    /\ \E call \in LockCalls :
          IF call = "handle_session"
          THEN \E s \in NextEchoes :
                  /\ mutex' = CallReturned([mutex EXCEPT !.task[t] =
                                  [NoCall EXCEPT !.call = call, !.echo = s,
                                                 !.steps = HandleSessionSteps(s)]], t)
                  /\ echoed' = echoed \o s
          ELSE /\ mutex' = [mutex EXCEPT !.task[t] =
                               [NoCall EXCEPT !.call = call, !.steps = StepsOf(call)]]
               /\ UNCHANGED echoed
    /\ UNCHANGED <<streamVars, tasks, finished, dsn, cliVars, url, json, repolls, parked,
                   callVars, sessionVars, netVars>>

\* lock().await is Ready when nobody holds the lock.
MutexLock(t) ==
    /\ mutex.task[t].steps # <<>>
    /\ NextStep(t)[1] = "lock"
    /\ mutex.held[NextStep(t)[2]] = 0
    /\ mutex' = [Popped(t) EXCEPT !.held[NextStep(t)[2]] = t]
    /\ UNCHANGED <<streamVars, mergeVars, cliVars, url, json, repolls, parked,
                   callVars, sessionVars, netVars>>

\* `guard.clone()`: the value under the lock is copied into the call.
MutexClone(t) ==
    /\ mutex.task[t].steps # <<>>
    /\ NextStep(t)[1] = "clone"
    /\ mutex' = CallReturned(
          CASE NextStep(t)[2] = "session_state" ->
                  [Accessed(t) EXCEPT !.task[t].session = Some(session_state)]
            [] NextStep(t)[2] = "database" ->
                  [Accessed(t) EXCEPT !.task[t].database = current_database]
            [] NextStep(t)[2] = "warehouse" ->
                  [Accessed(t) EXCEPT !.task[t].warehouse = current_warehouse], t)
    /\ UNCHANGED <<streamVars, mergeVars, cliVars, url, json, repolls, parked,
                   callVars, sessionVars, netVars>>

\* `*guard = ..`: one block of handle_session.
MutexWrite(t) ==
    /\ mutex.task[t].steps # <<>>
    /\ NextStep(t)[1] = "write"
    /\ mutex' = CallReturned(Accessed(t), t)
    /\ LET session == Unwrap(mutex.task[t].echo) IN
          CASE NextStep(t)[2] = "session_state" ->
                  /\ session_state' = MergeSessionState(session_state, session)
                  /\ UNCHANGED <<database, warehouse>>
            [] NextStep(t)[2] = "database" ->
                  /\ database' = MergeDatabase(database, session)
                  /\ UNCHANGED <<session_state, warehouse>>
            [] NextStep(t)[2] = "warehouse" ->
                  /\ warehouse' = MergeWarehouse(warehouse, session)
                  /\ UNCHANGED <<session_state, database>>
    /\ UNCHANGED <<streamVars, mergeVars, cliVars, url, json, repolls, parked,
                   callVars, netVars>>

\* `.send()`: the request goes out with the headers and the body the call
\* has made: the session it cloned and the warehouse it cloned.
MutexSend(t) ==
    /\ mutex.task[t].steps # <<>>
    /\ NextStep(t)[1] = "send"
    /\ mutex' = Popped(t)
    /\ UNCHANGED <<streamVars, mergeVars, cliVars, url, json, repolls, parked,
                   callVars, sessionVars, netVars>>

\* `.await`: the reply is there; start_query and query_page go on to
\* handle_session with its session echo.
MutexReply(t) ==
    /\ mutex.task[t].steps # <<>>
    /\ NextStep(t)[1] = "await"
    /\ IF Merges(mutex.task[t].call)
       THEN \E s \in NextEchoes :
               /\ mutex' = CallReturned([mutex EXCEPT !.task[t].echo = s,
                                                  !.task[t].steps = HandleSessionSteps(s)], t)
               /\ echoed' = echoed \o s
       ELSE /\ mutex' = CallReturned(Popped(t), t)
            /\ UNCHANGED echoed
    /\ UNCHANGED <<streamVars, tasks, finished, dsn, cliVars, url, json, repolls, parked,
                   callVars, sessionVars, netVars>>

\* ------------------------- upload_to_stage, get_presigned_upload_url, load_data
UploadOps == {"upload_to_stage", "load_data"}
UploadUri == <<"v1/upload_to_stage">>

\* The rows a PRESIGN UPLOAD query may come back with: none, two, a row of
\* two columns, a row whose headers are not JSON, and rows of three columns
\* that name the method PUT or another one.
PresignRow(method) == <<method, "{}", "https://storage/stage">>
PresignData ==
    {<<>>, <<PresignRow("PUT"), PresignRow("PUT")>>, <<<<"PUT", "{}">>>>,
     <<<<"PUT", "not json", "https://storage/stage">>>>,
     <<PresignRow("PUT")>>, <<PresignRow("GET")>>, <<PresignRow("POST")>>}
\* What self.query("PRESIGN UPLOAD ..") may return (SpecQuery has its steps).
PresignQueryResults ==
    {Err("Transport", None), Err("Request", BodyText(500)),
     Err("InvalidResponse", QueryError)}
    \cup {Ok([NoResponse EXCEPT !.data = d, !.session = s]) :
             d \in PresignData, s \in PageSessions(1)}

\* Mutant: the method the row names is not looked at.
PresignedResponse_AnyMethod(q) ==
    IF ~q.ok THEN q
    ELSE IF Len(q.val.data) # 1
    THEN Err("Request", "Empty response from server for presigned request")
    ELSE IF Len(q.val.data[1]) # 3
    THEN Err("Request", "Invalid response from server for presigned request")
    ELSE IF q.val.data[1][2] # "{}" THEN Err("Decode", None)
    ELSE Ok([method |-> q.val.data[1][1], headers |-> q.val.data[1][2],
             url |-> q.val.data[1][3]])

\* get_presigned_upload_url after `self.query(&sql).await?`: the checks of
\* the rows, then the PresignedResponse.
PresignedResponse(q) ==
    IF ~q.ok THEN q
    ELSE IF Len(q.val.data) # 1
    THEN Err("Request", "Empty response from server for presigned request")
    ELSE IF Len(q.val.data[1]) # 3
    THEN Err("Request", "Invalid response from server for presigned request")
    ELSE IF q.val.data[1][1] # "PUT"
    THEN Err("Request", <<"Invalid method for presigned upload request",
                          q.val.data[1][1]>>)
    ELSE IF q.val.data[1][2] # "{}" THEN Err("Decode", None)
    ELSE Ok([method |-> q.val.data[1][1], headers |-> q.val.data[1][2],
             url |-> q.val.data[1][3]])

\* The replies to a PUT of the data: none, a status other than 200 with its
\* body, a 200 whose body breaks off, a 200 with its body.
UploadReplies ==
    {TransportFailure, Reply(FALSE, 500, TRUE, NoResponse),
     Reply(FALSE, 200, FALSE, NoResponse), Reply(FALSE, 200, TRUE, NoResponse)}

\* Mutant: every reply that has a status is a success.
UploadResult_AnyStatus(r) ==
    IF r.failed \/ ~r.parses THEN Err("Transport", None) ELSE Ok(None)

\* upload_to_stage_with_stream after `.send().await?`: the body is read,
\* then `match status`.
UploadResult(r) ==
    IF r.failed \/ ~r.parses THEN Err("Transport", None)
    ELSE IF r.status = 200 THEN Ok(None)
    ELSE Err("Request", <<"Stage Upload Failed", r.text>>)

\* presign_upload_to_stage: only a 200 is a success.
PresignUploadResult(r) ==
    IF r.failed \/ ~r.parses THEN Err("Transport", None)
    ELSE IF r.status = 200 THEN Ok(None)
    ELSE Err("IO", <<"Upload with presigned url failed", r.text>>)

\* The stage the caller names: load_data makes `@~/client/load/<now>`, a
\* caller of upload_to_stage may name one StageLocation cannot parse.
StageLocations ==
    {Some([name |-> "~", path |-> "client/load/ts"])}
    \cup (IF op = "upload_to_stage" THEN {None} ELSE {})

\* load_data: the timestamp, the name of the scratch stage, then
\* `self.upload_to_stage(&stage, data, size).await?`.
LoadDataStart ==
    /\ op = "load_data" /\ pc = "begin"
    /\ \E now \in {None, Some("ts")} :
          IF IsSome(now)
          THEN pc' = "upload" /\ UNCHANGED result
          ELSE /\ pc' = "done"
               /\ result' = Err("IO", "Failed to get current timestamp")
    /\ UNCHANGED <<streamVars, mergeVars, cliVars, restVars, op, sq, fut, resp, saved, uuids,
                   sessionVars, netVars>>

\* upload_to_stage: `if self.presigned_url_disabled`.
UploadToStage ==
    /\ \/ op = "upload_to_stage" /\ pc = "begin"
       \/ op = "load_data" /\ pc = "upload"
    /\ pc' = IF dsn.presigned_url_disabled THEN "with_stream" ELSE "presign"
    /\ UNCHANGED <<streamVars, mergeVars, cliVars, restVars, op, sq, fut, resp, saved, result, uuids,
                   sessionVars, netVars>>

\* Mutant: load_data goes on to the INSERT whatever the upload returned.
UploadReturn_Unchecked(r) ==
    IF op = "load_data"
    THEN pc' = "insert" /\ UNCHANGED result
    ELSE pc' = "done" /\ result' = r

\* upload_to_stage has an Err or an Ok to return: `?` in load_data, which
\* goes on to the INSERT after an Ok.
UploadReturn(r) ==
    IF op = "load_data" /\ r.ok
    THEN pc' = "insert" /\ UNCHANGED result
    ELSE pc' = "done" /\ result' = r

\* get_presigned_upload_url: the PRESIGN UPLOAD query and the checks of its
\* rows; `?` in upload_to_stage.
GetPresignedUploadUrl ==
    /\ op \in UploadOps /\ pc = "presign"
    /\ uuids' = uuids + 1
    /\ http' = Append(http, Request("POST", QueryUri, gen_query_id(uuids + 1),
                                    warehouse, Some(session_state), None)
                            @@ [sql |-> "PRESIGN UPLOAD"])
    /\ \E q \in PresignQueryResults :
          /\ clean' = (clean /\ q.ok)
          /\ served' = IF q.ok THEN Append(served, q.val) ELSE served
          /\ IF q.ok THEN handle_session(q.val.session) ELSE UNCHANGED sessionVars
          /\ IF PresignedResponse(q).ok
             THEN /\ pc' = "put"
                  /\ result' = PresignedResponse(q)
             ELSE UploadReturn(PresignedResponse(q))
    /\ UNCHANGED <<streamVars, mergeVars, cliVars, restVars, op, sq, fut, resp, saved>>

\* presign_upload_to_stage(presigned, data, size): the PUT to the url the
\* server gave, with the headers it gave.
PresignUploadToStage ==
    /\ op \in UploadOps /\ pc = "put"
    /\ http' = Append(http, [method |-> result.val.method,
                             uri |-> <<"presigned", result.val.url>>,
                             headers |-> result.val.headers])
    /\ \E r \in UploadReplies :
          /\ clean' = (clean /\ Succeeded(r))
          /\ UploadReturn(PresignUploadResult(r))
    /\ UNCHANGED <<streamVars, mergeVars, cliVars, restVars, op, sq, fut, resp, saved, uuids,
                   sessionVars, served>>

\* upload_to_stage_with_stream: the stage is parsed, the headers are made
\* with the stage name, the multipart PUT is sent.
UploadToStageWithStream ==
    /\ op \in UploadOps /\ pc = "with_stream"
    /\ \E loc \in StageLocations :
          IF loc = None
          THEN /\ UploadReturn(Err("BadArgument", None))
               /\ UNCHANGED <<uuids, http, clean>>
          ELSE /\ uuids' = uuids + 1
               /\ http' = Append(http, Request("PUT", UploadUri,
                                               gen_query_id(uuids + 1), warehouse,
                                               None, None)
                                       @@ [stage_name |-> Unwrap(loc).name,
                                           part |-> "upload",
                                           file_name |-> Unwrap(loc).path])
               /\ \E r \in UploadReplies :
                     /\ clean' = (clean /\ Succeeded(r))
                     /\ UploadReturn(UploadResult(r))
    /\ UNCHANGED <<streamVars, mergeVars, cliVars, restVars, op, sq, fut, resp, saved, sessionVars,
                   served>>

\* ServerStats::from(resp.stats)
ServerStats(stats) == [write_rows |-> stats]

\* load_data after `insert_with_stage(..).await?`.
LoadDataReturn ==
    /\ op = "load_data" /\ pc = "inserted"
    /\ result' = IF result.ok THEN Ok(ServerStats(result.val.stats)) ELSE result
    /\ pc' = "done"
    /\ UNCHANGED <<streamVars, mergeVars, cliVars, restVars, op, sq, fut, resp, saved, uuids,
                   sessionVars, netVars>>

\* ------------------------------------------------------------------- specs
\* ---------------------------------------------------------------- bendsql
\* Text is a sequence of characters, and a statement is the sequence of the
\* lexemes the Tokenizer cuts it into (runs of whitespace included).
UpperAlpha == <<"A", "B", "C", "D", "E", "F", "G", "H", "I", "J", "K", "L", "M",
                "N", "O", "P", "Q", "R", "S", "T", "U", "V", "W", "X", "Y", "Z">>
LowerAlpha == <<"a", "b", "c", "d", "e", "f", "g", "h", "i", "j", "k", "l", "m",
                "n", "o", "p", "q", "r", "s", "t", "u", "v", "w", "x", "y", "z">>
IndexIn(alpha, c) == CHOOSE i \in DOMAIN alpha : alpha[i] = c
IsIn(alpha, c) == \E i \in DOMAIN alpha : alpha[i] = c
to_ascii_uppercase(c) == IF IsIn(LowerAlpha, c) THEN UpperAlpha[IndexIn(LowerAlpha, c)] ELSE c
to_ascii_lowercase(c) == IF IsIn(UpperAlpha, c) THEN LowerAlpha[IndexIn(UpperAlpha, c)] ELSE c
to_uppercase(text) == [i \in DOMAIN text |-> to_ascii_uppercase(text[i])]
to_lowercase(text) == [i \in DOMAIN text |-> to_ascii_lowercase(text[i])]
Capitalized(text) ==
    [i \in DOMAIN text |-> IF i = 1 THEN to_ascii_uppercase(text[i])
                           ELSE to_ascii_lowercase(text[i])]

\* The keywords of TokenKind that the session matches on, and two that
\* QueryKind::from does not.
Keyword ==
    [EXPLAIN |-> <<"E", "X", "P", "L", "A", "I", "N">>,
     PUT |-> <<"P", "U", "T">>,
     GET |-> <<"G", "E", "T">>,
     ALTER |-> <<"A", "L", "T", "E", "R">>,
     DELETE |-> <<"D", "E", "L", "E", "T", "E">>,
     UPDATE |-> <<"U", "P", "D", "A", "T", "E">>,
     INSERT |-> <<"I", "N", "S", "E", "R", "T">>,
     CREATE |-> <<"C", "R", "E", "A", "T", "E">>,
     DROP |-> <<"D", "R", "O", "P">>,
     OPTIMIZE |-> <<"O", "P", "T", "I", "M", "I", "Z", "E">>,
     SELECT |-> <<"S", "E", "L", "E", "C", "T">>,
     SHOW |-> <<"S", "H", "O", "W">>]
Keywords == {Keyword[n] : n \in DOMAIN Keyword}
\* Lexemes that are no keyword: whitespace, a semicolon, a line comment,
\* identifiers (one of them a keyword with a letter more), the REPL's own
\* commands, and a quote that is never closed, which no token rule matches.
Space == <<" ">>
SemiColon == <<";">>
LineComment == <<"-", "-">>
Unterminated == <<"'">>
Dot == <<".">>
idT == <<"t">>
idPUTS == <<"P", "U", "T", "S">>
txExit == <<"e", "x", "i", "t">>
txQuit == <<"q", "u", "i", "t">>
Lexemes ==
    Keywords \cup {to_lowercase(k) : k \in Keywords}
        \cup {Capitalized(k) : k \in Keywords}
        \cup {Space, SemiColon, LineComment, Unterminated, idT, idPUTS}

\* TokenKind of one lexeme: keywords are matched without regard to case.
TokenKindOf(lexeme) ==
    IF to_uppercase(lexeme) \in Keywords
    THEN CHOOSE n \in DOMAIN Keyword : Keyword[n] = to_uppercase(lexeme)
    ELSE IF lexeme = SemiColon THEN "SemiColon"
    ELSE IF lexeme = LineComment THEN "Comment"
    ELSE "Ident"
\* Tokenizer::next on a fresh tokenizer: whitespace is skipped; the result is
\* None at the end of the text, Some(Err) on a lexeme no rule matches, and
\* Some(Ok(token)) otherwise.
RECURSIVE TokenizerNext(_)
TokenizerNext(query) ==
    IF query = <<>> THEN None
    ELSE IF Head(query) = Space THEN TokenizerNext(Tail(query))
    ELSE IF Head(query) = Unterminated THEN Some([ok |-> FALSE, kind |-> "Error"])
    ELSE Some([ok |-> TRUE, kind |-> TokenKindOf(Head(query))])

\* Mutant: DROP is not among the updating statements.
QueryKindFrom_DropIsQuery(query) ==
    LET t == TokenizerNext(query)
    IN IF IsSome(t) /\ Unwrap(t).ok
       THEN CASE Unwrap(t).kind = "EXPLAIN" -> "Explain"
              [] Unwrap(t).kind = "PUT" -> "Put"
              [] Unwrap(t).kind = "GET" -> "Get"
              [] Unwrap(t).kind \in {"ALTER", "DELETE", "UPDATE", "INSERT",
                                     "CREATE", "OPTIMIZE"} -> "Update"
              [] OTHER -> "Query"
       ELSE "Query"

\* impl From<&str> for QueryKind
QueryKindFrom(query) ==
    LET t == TokenizerNext(query)
    IN IF IsSome(t) /\ Unwrap(t).ok
       THEN CASE Unwrap(t).kind = "EXPLAIN" -> "Explain"
              [] Unwrap(t).kind = "PUT" -> "Put"
              [] Unwrap(t).kind = "GET" -> "Get"
              [] Unwrap(t).kind \in {"ALTER", "DELETE", "UPDATE", "INSERT",
                                     "CREATE", "DROP", "OPTIMIZE"} -> "Update"
              [] OTHER -> "Query"
       ELSE "Query"

\* str::trim_end_matches(';') and str::trim on a statement.
RECURSIVE TrimEndSemiColons(_)
TrimEndSemiColons(query) ==
    IF query # <<>> /\ Last(query) = SemiColon
    THEN TrimEndSemiColons(SubSeq(query, 1, Len(query) - 1))
    ELSE query
RECURSIVE Trim(_)
Trim(query) ==
    IF query # <<>> /\ Head(query) = Space THEN Trim(Tail(query))
    ELSE IF query # <<>> /\ Last(query) = Space
    THEN Trim(SubSeq(query, 1, Len(query) - 1))
    ELSE query
\* str::trim_start_matches('.')
RECURSIVE TrimStartDots(_)
TrimStartDots(query) ==
    IF query # <<>> /\ Head(query) = Dot THEN TrimStartDots(Tail(query)) ELSE query
\* How many pieces split_ascii_whitespace cuts a statement into.
SplitWhitespaceLen(query) ==
    Cardinality({i \in DOMAIN query :
                    query[i] # Space /\ (i = 1 \/ query[i - 1] = Space)})

\* The text of an error is a sequence of words; str::contains looks for one.
Contains(text, needle) == \E i \in DOMAIN text : text[i] = needle
\* The errors a statement can fail with on the connection.
ServerErrors ==
    {<<"APIError", "Unauthenticated">>, <<"APIError", "unauthenticated">>,
     <<"IO", "timed out">>}
ControlSyntaxError == <<"Control command error">>
ControlUnknownError == <<"Unknown command">>

\* What one call of handle_query can return: the method it called on the
\* connection, what it printed on the way, and its Result<Option<ServerStats>>.
QueryReturn(kind, call, printed, ok, val, text) ==
    [kind |-> kind, call |-> call, printed |-> printed,
     ok |-> ok, val |-> val, text |-> text]
Ran(kind, call) ==
    {QueryReturn(Some(kind), call, "", TRUE, Some("stats"), <<>>)}
        \cup {QueryReturn(Some(kind), call, "", FALSE, None, e) : e \in ServerErrors}
\* What the exec arm of handle_query writes to stderr once exec has
\* returned the number of affected rows.
ExecReport(is_repl, affected) ==
    IF is_repl
    THEN IF affected > 0 THEN "rows affected in" ELSE "processed in"
    ELSE ""
\* The exec arm of handle_query: exec fails and `?` returns the error, or it
\* returns a number of affected rows.
RanExec(kind, is_repl) ==
    {QueryReturn(Some(kind), "exec", ExecReport(is_repl, affected), TRUE,
                 Some("default"), <<>>) : affected \in 0..1}
        \cup {QueryReturn(Some(kind), "exec", "", FALSE, None, e) : e \in ServerErrors}
\* Mutant: an Update goes to exec in either mode.
UsesExec_AnyMode(kind, is_repl) == kind = "Update"
\* The arm (QueryKind::Update, false) of the match in handle_query
UsesExec(kind, is_repl) == kind = "Update" /\ ~is_repl
\* Session::handle_query
handle_query(is_repl, statement) ==
    LET query == Trim(TrimEndSemiColons(statement))
        kind == QueryKindFrom(query)
    IN IF is_repl /\ query \in {<<txExit>>, <<txQuit>>}
       THEN {QueryReturn(None, "", "", TRUE, None, <<>>)}
       ELSE IF is_repl /\ query # <<>> /\ Head(query) = Dot
       THEN IF SplitWhitespaceLen(TrimStartDots(query)) # 2
            THEN {QueryReturn(None, "", "", FALSE, None, ControlSyntaxError)}
            ELSE {QueryReturn(None, "", "", TRUE, Some("default"), <<>>),
                  QueryReturn(None, "", "", FALSE, None, ControlUnknownError)}
       ELSE IF UsesExec(kind, is_repl)
       THEN RanExec(kind, is_repl)
       ELSE IF kind \in {"Put", "Get"} /\ SplitWhitespaceLen(query) # 3
       THEN {QueryReturn(Some(kind), "", "put args are invalid", TRUE,
                         Some("default"), <<>>)}
       ELSE IF kind = "Put" THEN Ran(kind, "put_files")
       ELSE IF kind = "Get" THEN Ran(kind, "get_files")
       ELSE Ran(kind, "query_iter_ext")

\* The interactive session: the statements append_query cut out of the line
\* just read and how many of them the loop has taken, what is left in the
\* multi-line buffer, which connection `conn` is (0 is the one try_new
\* made), and what has happened so far; for stream_load_stdin what is left
\* of stdin, the temporary file (None when there is none) and whether it
\* was ever created, and what the function returned.
NoCli ==
    [pc |-> "idle", is_repl |-> FALSE, queries |-> <<>>, i |-> 0,
     query |-> <<>>, kind |-> None, conn |-> 0, log |-> <<>>,
     stdin |-> <<>>, file |-> None, created |-> FALSE, ret |-> NoResult]
Executed(i, conn, r) == [ev |-> "handle_query", i |-> i, conn |-> conn, ret |-> r]
Reconnected(i, ok) == [ev |-> "reconnect", i |-> i, ok |-> ok]
Eprintln(i, what, text) == [ev |-> "eprintln", i |-> i, what |-> what, text |-> text]

\* Mutant: every error makes the REPL reconnect.
ShouldReconnect_AnyError(e) == TRUE

\* `e.to_string().contains("Unauthenticated")`
ShouldReconnect(e) == Contains(e, "Unauthenticated")

\* The for loop of handle_repl takes the next statement and runs it.
ReplHandleQuery ==
    /\ op = "handle_repl" /\ cli.pc = "for" /\ cli.i < Len(cli.queries)
    /\ \E r \in handle_query(TRUE, cli.queries[cli.i + 1]) :
          LET i == cli.i + 1
              ran == Append(cli.log, Executed(i, cli.conn, r))
          IN cli' =
               IF r.ok /\ r.val = None
               THEN [cli EXCEPT !.i = i, !.log = ran, !.pc = "bye"]
               ELSE IF r.ok
               THEN [cli EXCEPT !.i = i, !.log = ran]
               ELSE IF ShouldReconnect(r.text)
               THEN [cli EXCEPT !.i = i, !.log = ran, !.pc = "reconnect"]
               ELSE [cli EXCEPT !.i = i, !.query = <<>>, !.pc = "readline",
                                !.log = Append(ran, Eprintln(i, "error", r.text))]
    /\ UNCHANGED <<streamVars, mergeVars, restVars, callVars, sessionVars, netVars>>

\* What Session::reconnect can do: get_conn fails and the old connection
\* stays; get_conn succeeds and the version query on the new connection fails;
\* or both succeed.
ReconnectResults ==
    {[replaced |-> FALSE, ok |-> FALSE, text |-> <<"BadArgument">>],
     [replaced |-> TRUE, ok |-> FALSE, text |-> <<"APIError", "Unauthenticated">>],
     [replaced |-> TRUE, ok |-> TRUE, text |-> <<>>]}
\* Session::reconnect, called by handle_repl
ReplReconnect ==
    /\ op = "handle_repl" /\ cli.pc = "reconnect"
    /\ \E c \in ReconnectResults :
          LET conn == IF c.replaced THEN cli.conn + 1 ELSE cli.conn
              log == Append(cli.log, Reconnected(cli.i, c.ok))
          IN cli' =
               IF c.ok
               THEN [cli EXCEPT !.conn = conn, !.log = log, !.pc = "retry"]
               ELSE [cli EXCEPT !.conn = conn, !.pc = "for",
                        !.log = Append(log, Eprintln(cli.i, "reconnect error", c.text))]
    /\ UNCHANGED <<streamVars, mergeVars, restVars, callVars, sessionVars, netVars>>

\* The statement is run again after a reconnect that succeeded.
ReplRetry ==
    /\ op = "handle_repl" /\ cli.pc = "retry"
    /\ \E r \in handle_query(TRUE, cli.queries[cli.i]) :
          LET ran == Append(cli.log, Executed(cli.i, cli.conn, r))
          IN cli' =
               [cli EXCEPT !.pc = "for",
                   !.log = IF r.ok THEN ran
                           ELSE Append(ran, Eprintln(cli.i, "error", r.text))]
    /\ UNCHANGED <<streamVars, mergeVars, restVars, callVars, sessionVars, netVars>>

\* The statements of the line are used up: the REPL reads the next line.
ReplLineDone ==
    /\ op = "handle_repl" /\ cli.pc = "for" /\ cli.i = Len(cli.queries)
    /\ cli' = [cli EXCEPT !.pc = "readline"]
    /\ UNCHANGED <<streamVars, mergeVars, restVars, callVars, sessionVars, netVars>>

\* readline returns ReadlineError::Eof.
ReplEof ==
    /\ op = "handle_repl" /\ cli.pc = "readline"
    /\ cli' = [cli EXCEPT !.pc = "bye"]
    /\ UNCHANGED <<streamVars, mergeVars, restVars, callVars, sessionVars, netVars>>

\* Session::stream_load_stdin: what `lines.next()` gives, last of all None.
StdinLine(text) == [ok |-> TRUE, line |-> text]
StdinError == [ok |-> FALSE, line |-> ""]
\* `File::create(&tmp_file).await?`, after the name is made from the clock.
StreamLoadStdinCreate ==
    /\ op = "stream_load_stdin" /\ cli.pc = "begin"
    /\ \E created \in BOOLEAN :
          cli' = IF created
                 THEN [cli EXCEPT !.pc = "lines", !.file = Some(<<>>), !.created = TRUE]
                 ELSE [cli EXCEPT !.pc = "returned", !.ret = Err("IO", None)]
    /\ UNCHANGED <<streamVars, mergeVars, restVars, callVars, sessionVars, netVars>>
\* One turn of the loop over the lines of stdin.
StreamLoadStdinLine ==
    /\ op = "stream_load_stdin" /\ cli.pc = "lines"
    /\ \E written \in BOOLEAN :
          cli' =
            IF cli.stdin = <<>>
            THEN IF written
                 THEN [cli EXCEPT !.pc = "load"]
                 ELSE [cli EXCEPT !.pc = "returned", !.ret = Err("IO", None)]
            ELSE IF ~Head(cli.stdin).ok
            THEN [cli EXCEPT !.pc = "returned", !.stdin = Tail(@),
                             !.ret = Err("stream load stdin err", None)]
            ELSE IF written
            THEN [cli EXCEPT !.stdin = Tail(@),
                             !.file = Some(Unwrap(@) \o <<Head(cli.stdin).line, "\n">>)]
            ELSE [cli EXCEPT !.pc = "returned", !.stdin = Tail(@),
                             !.ret = Err("IO", None)]
    /\ UNCHANGED <<streamVars, mergeVars, restVars, callVars, sessionVars, netVars>>
\* `self.stream_load_file(query, &tmp_file, options).await?`
StreamLoadStdinLoad ==
    /\ op = "stream_load_stdin" /\ cli.pc = "load"
    /\ \E r \in {Ok(ServerStats(Len(Unwrap(cli.file)) \div 2)),
                 Err("IO", None), Err("InvalidResponse", None)} :
          cli' = IF r.ok
                 THEN [cli EXCEPT !.pc = "remove",
                                  !.log = Append(@, [ev |-> "load_data", ret |-> r])]
                 ELSE [cli EXCEPT !.pc = "returned", !.ret = r,
                                  !.log = Append(@, [ev |-> "load_data", ret |-> r])]
    /\ UNCHANGED <<streamVars, mergeVars, restVars, callVars, sessionVars, netVars>>
\* `remove_file(tmp_file).await?; Ok(())`
StreamLoadStdinRemove ==
    /\ op = "stream_load_stdin" /\ cli.pc = "remove"
    /\ \E removed \in BOOLEAN :
          cli' = IF removed
                 THEN [cli EXCEPT !.pc = "returned", !.file = None, !.ret = Ok(None)]
                 ELSE [cli EXCEPT !.pc = "returned", !.ret = Err("IO", None)]
    /\ UNCHANGED <<streamVars, mergeVars, restVars, callVars, sessionVars, netVars>>

\* A direct call of QueryKind::from, as format_query makes it.
QueryKindCall ==
    /\ op = "query_kind" /\ cli.pc = "from"
    /\ cli' = [cli EXCEPT !.kind = Some(QueryKindFrom(cli.queries[1])),
                          !.pc = "kind"]
    /\ UNCHANGED <<streamVars, mergeVars, restVars, callVars, sessionVars, netVars>>

\* One call of handle_query, as handle_reader and handle_repl make it: the
\* statement is classified and dispatched, and what was executed and
\* written is logged.
HandleQueryCall ==
    /\ op = "handle_query" /\ cli.pc = "handle_query"
    /\ \E r \in handle_query(cli.is_repl, cli.queries[1]) :
          cli' = [cli EXCEPT !.i = 1, !.kind = r.kind, !.pc = "returned",
                             !.log = <<Executed(1, cli.conn, r)>>]
    /\ UNCHANGED <<streamVars, mergeVars, restVars, callVars, sessionVars, netVars>>

\* ------------------------------------------------- QueryRequest as JSON
\* A JSON value is a string, a number, null, or an object, which is the
\* sequence of its members <<key, value>>; a BTreeMap is written as the
\* object of its entries.
OptionMap(o, f(_)) == IF IsSome(o) THEN Some(f(Unwrap(o))) ELSE None
JsonString(s) == <<"string", s>>
JsonNumber(n) == <<"number", n>>
JsonObject(members) == <<"object", members>>
JsonMap(m) == <<"map", m>>
JsonNull == <<"null">>

\* Mutant: a member that is None is written as null.
Member_Null(key, value) ==
    IF IsSome(value) THEN <<<<key, Unwrap(value)>>>> ELSE <<<<key, JsonNull>>>>

\* `#[serde(skip_serializing_if = "Option::is_none")]` on a member
Member(key, value) ==
    IF IsSome(value) THEN <<<<key, Unwrap(value)>>>> ELSE <<>>

\* #[derive(Serialize)] of the four structs of request.rs
SerializeSessionConfig(s) ==
    JsonObject(
    Member("database", OptionMap(s.database, JsonString))
        \o Member("settings", OptionMap(s.settings, JsonMap)))
SerializePaginationConfig(p) ==
    JsonObject(
    Member("wait_time_secs", OptionMap(p.wait_time_secs, JsonNumber))
        \o Member("max_rows_in_buffer", OptionMap(p.max_rows_in_buffer, JsonNumber))
        \o Member("max_rows_per_page", OptionMap(p.max_rows_per_page, JsonNumber)))
SerializeStageAttachmentConfig(a) ==
    JsonObject(
    <<<<"location", JsonString(a.location)>>>>
        \o Member("file_format_options", OptionMap(a.file_format_options, JsonMap))
        \o Member("copy_options", OptionMap(a.copy_options, JsonMap)))
SerializeQueryRequest(r) ==
    JsonObject(
    Member("session", OptionMap(r.session, SerializeSessionConfig))
        \o <<<<"sql", JsonString(r.sql)>>>>
        \o Member("pagination", OptionMap(r.pagination, SerializePaginationConfig))
        \o Member("stage_attachment",
                  OptionMap(r.stage_attachment, SerializeStageAttachmentConfig)))

\* QueryRequest::new(sql).with_session(..).with_pagination(..).with_stage_attachment(..)
QueryRequest(sql, session, pagination, stage_attachment) ==
    [session |-> session, sql |-> sql, pagination |-> pagination,
     stage_attachment |-> stage_attachment]
PaginationConfig(wait, buffer, page) ==
    [wait_time_secs |-> wait, max_rows_in_buffer |-> buffer,
     max_rows_per_page |-> page]
StageAttachmentConfig(location, format, copy) ==
    [location |-> location, file_format_options |-> format, copy_options |-> copy]
NoJson ==
    [pc |-> "idle", req |-> QueryRequest("", None, None, None), text |-> JsonNull]

\* serde_json::to_string(&req)
SerdeToString ==
    /\ op = "to_string" /\ json.pc = "req"
    /\ json' = [json EXCEPT !.text = SerializeQueryRequest(json.req), !.pc = "text"]
    /\ UNCHANGED <<streamVars, mergeVars, cliVars, url, repolls, parked, mutex, callVars, sessionVars, netVars>>

\* ------------------------------------------------------ APIClient::from_dsn
\* The DSN as Url::parse hands it over: `parses` tells whether it is a URL at
\* all, username is "" when the DSN has none, host and port are Options, the
\* path is a sequence of characters and segments, and query_pairs the
\* options in the order they are written.
Url(username, password, host, port, path, pairs) ==
    [parses |-> TRUE, username |-> username, password |-> password,
     host |-> host, port |-> port, path |-> path, query_pairs |-> pairs]
NoUrl == [Url("", None, None, None, <<>>, <<>>) EXCEPT !.parses = FALSE]
\* percent_decode_str(s).decode_utf8_lossy()
PercentDecode(s) == [i \in DOMAIN s |-> IF s[i] = "%40" THEN "@" ELSE s[i]]
\* Mutant: the path is taken as it is.
TrimStartSlashes_Keep(path) == path

\* str::trim_start_matches('/')
RECURSIVE TrimStartSlashes(_)
TrimStartSlashes(path) ==
    IF path # <<>> /\ Head(path) = "/" THEN TrimStartSlashes(Tail(path)) ELSE path
\* str::parse::<i64>() and str::parse::<u64>(): None stands for the ParseIntError.
Numerals == ("10" :> 10) @@ ("-1" :> -1)
ParseI64(v) == IF v \in DOMAIN Numerals THEN Some(Numerals[v]) ELSE None
ParseU64(v) ==
    IF v \in DOMAIN Numerals /\ Numerals[v] >= 0 THEN Some(Numerals[v]) ELSE None
\* BTreeMap::insert
MapInsert(m, k, v) == {p \in m : p[1] # k} \cup {<<k, v>>}
\* The files tokio::fs::read can read.
ReadableFiles == {"ca.pem"}

\* impl Default for APIClient (the endpoint as <<scheme, host, port>>)
Default ==
    [endpoint |-> <<"http", "localhost", 8080>>,
     host |-> "localhost", port |-> 8000,
     tenant |-> None, warehouse |-> None, database |-> None,
     user |-> "root", password |-> None,
     session_state |-> SessionState(None, None),
     wait_time_secs |-> None, max_rows_in_buffer |-> None,
     max_rows_per_page |-> None, page_request_timeout |-> 30,
     tls_ca_file |-> None, presigned_url_disabled |-> FALSE]

\* Mutant: every sslmode but "disable" selects https.
SslMode_Lenient(v) == IF v = "disable" THEN Some("http") ELSE Some("https")

\* `"sslmode" => match v.as_ref()`: the scheme, None for the BadArgument arm.
SslMode(v) ==
    IF v = "disable" THEN Some("http")
    ELSE IF v \in {"require", "enable"} THEN Some("https")
    ELSE None

\* One turn of `for (k, v) in u.query_pairs()`: the client, the scheme and
\* the session settings after it, or the error it returns with.
Parsed(acc, field, n) ==
    IF IsSome(n) THEN [acc EXCEPT !.client[field] = n]
    ELSE [acc EXCEPT !.err = Some("Parsing")]
QueryPair(acc, k, v) ==
    CASE k = "wait_time_secs" -> Parsed(acc, k, ParseI64(v))
      [] k = "max_rows_in_buffer" -> Parsed(acc, k, ParseI64(v))
      [] k = "max_rows_per_page" -> Parsed(acc, k, ParseI64(v))
      [] k = "page_request_timeout_secs" ->
            IF IsSome(ParseU64(v))
            THEN [acc EXCEPT !.client.page_request_timeout = Unwrap(ParseU64(v))]
            ELSE [acc EXCEPT !.err = Some("Parsing")]
      [] k = "presigned_url_disabled" ->
            IF v \in {"true", "1"}
            THEN [acc EXCEPT !.client.presigned_url_disabled = TRUE]
            ELSE IF v \in {"false", "0"}
            THEN [acc EXCEPT !.client.presigned_url_disabled = FALSE]
            ELSE [acc EXCEPT !.err = Some("BadArgument")]
      [] k = "tenant" -> [acc EXCEPT !.client.tenant = Some(v)]
      [] k = "warehouse" -> [acc EXCEPT !.client.warehouse = Some(v)]
      [] k = "sslmode" ->
            IF IsSome(SslMode(v)) THEN [acc EXCEPT !.scheme = Unwrap(SslMode(v))]
            ELSE [acc EXCEPT !.err = Some("BadArgument")]
      [] k = "tls_ca_file" -> [acc EXCEPT !.client.tls_ca_file = Some(v)]
      [] OTHER ->
            [acc EXCEPT !.session_settings = MapInsert(@, k, v)]
RECURSIVE QueryPairs(_, _)
QueryPairs(acc, pairs) ==
    IF pairs = <<>> \/ IsSome(acc.err) THEN acc
    ELSE QueryPairs(QueryPair(acc, Head(pairs)[1], Head(pairs)[2]), Tail(pairs))

\* Mutant: the port of Default is kept when the DSN gives none.
DsnPort_Default(u, scheme) == IF IsSome(u.port) THEN Unwrap(u.port) ELSE Default.port

\* `client.port = match u.port()`
DsnPort(u, scheme) ==
    IF IsSome(u.port) THEN Unwrap(u.port)
    ELSE IF scheme = "http" THEN 80 ELSE 443

\* APIClient::from_dsn
from_dsn(u) ==
    LET stripped == TrimStartSlashes(u.path)
        db == IF stripped = <<>> THEN None ELSE Some(stripped)
        client == [Default EXCEPT
                      !.host = IF IsSome(u.host) THEN Unwrap(u.host) ELSE @,
                      !.user = u.username,
                      !.password = IF IsSome(u.password)
                                   THEN Some(PercentDecode(Unwrap(u.password)))
                                   ELSE None,
                      !.database = db]
        acc == QueryPairs([client |-> client, scheme |-> "https",
                           session_settings |-> {}, err |-> None],
                          u.query_pairs)
        port == DsnPort(u, acc.scheme)
    IN IF ~u.parses THEN Err("Parsing", None)
       ELSE IF IsSome(acc.err) THEN Err(Unwrap(acc.err), None)
       ELSE IF /\ acc.scheme = "https"
               /\ IsSome(acc.client.tls_ca_file)
               /\ Unwrap(acc.client.tls_ca_file) \notin ReadableFiles
       THEN Err("IO", None)
       ELSE Ok([acc.client EXCEPT
                   !.port = port,
                   !.endpoint = <<acc.scheme, acc.client.host, port>>,
                   !.session_state =
                       SessionState(db, Some(acc.session_settings))])

\* The caller builds a client from the DSN.
FromDsn ==
    /\ op = "from_dsn" /\ pc = "begin"
    /\ result' = from_dsn(url)
    /\ pc' = "done"
    /\ IF result'.ok
       THEN /\ session_state' = result'.val.session_state
            /\ database' = result'.val.database
            /\ warehouse' = result'.val.warehouse
            /\ dsn' = [database |-> result'.val.database,
                       warehouse |-> result'.val.warehouse,
                       presigned_url_disabled |-> result'.val.presigned_url_disabled]
       ELSE UNCHANGED <<sessionVars, dsn>>
    /\ UNCHANGED <<op, sq, fut, resp, saved, uuids, netVars, streamVars,
                   tasks, echoed, finished, cliVars, restVars>>

\* The client as from_dsn leaves it for a DSN with the database `db` and
\* the warehouse `wh` and no other setting, and the caller before its first
\* step.
ClientOf(db, wh, disabled) ==
    /\ session_state = SessionState(db, Some({}))
    /\ database = db
    /\ warehouse = wh
    /\ dsn = [database |-> db, warehouse |-> wh,
              presigned_url_disabled |-> disabled]
\* `presigned_url_disabled: false` of Default, when the DSN does not set it.
Client(db, wh) == ClientOf(db, wh, FALSE)

Caller(ops, disabled) ==
    /\ op \in ops
    /\ pc = "begin"
    /\ sq = NoFrame
    /\ fut = NoFuture
    /\ resp = NoResponse
    /\ saved = NoSaved
    /\ result = NoResult
    /\ uuids = 0
    /\ ClientOf(Some(<<"db", 0>>), None, disabled)
    /\ rows = NoRows
    /\ yielded = <<>>
    /\ tasks = [t \in Tasks |-> NoMerge]
    /\ echoed = <<>>
    /\ finished = <<>>
    /\ http = <<>>
    /\ served = <<>>
    /\ clean = TRUE
Configured(ops, disabled) == Caller(ops, disabled) /\ cli = NoCli /\ url = NoUrl /\ json = NoJson /\ repolls = 0 /\ parked = NoTask /\ mutex = NoMutex
Start(ops) == Configured(ops, FALSE)

\* APIClient::query
NextQuery ==
    \/ QueryStart \/ QueryStarted
    \/ StartQueryPost \/ StartQueryRetry \/ StartQueryReturn
    \/ WaitForQueryEnter \/ WaitForQueryFirstPage
    \/ WaitForQueryLoop \/ WaitForQueryNextPage
    \/ QueryPageSend \/ ServerReplyPage \/ QueryPageRetry \/ QueryPageReturn
InitQuery == Start({"query"})
SpecQuery == InitQuery /\ [][NextQuery]_vars


\* start_query and the POST loop of insert_with_stage, each followed by
\* wait_for_query
NextStart ==
    \/ NextQuery
    \/ InsertWithStagePost \/ InsertWithStageRetry
    \/ InsertWithStageFailed \/ InsertWithStagePosted
InitStart == Start({"query", "insert_with_stage"})
SpecStart == InitStart /\ [][NextStart]_vars

\* RestAPIConnection::exec
NextExec ==
    \/ ExecStart \/ ExecStarted \/ ExecLoop \/ ExecNextPage
    \/ StartQueryPost \/ StartQueryRetry \/ StartQueryReturn
    \/ QueryPageSend \/ ServerReplyPage \/ QueryPageRetry \/ QueryPageReturn
InitExec == Start({"exec"})
SpecExec == InitExec /\ [][NextExec]_vars

\* RestAPIConnection::query_row
NextQueryRow ==
    \/ QueryRowStart \/ QueryRowStarted \/ WaitForDataLoop \/ WaitForDataPage
    \/ QueryRowKill \/ QueryRowReturn
    \/ StartQueryPost \/ StartQueryRetry \/ StartQueryReturn
    \/ QueryPageSend \/ ServerReplyPage \/ QueryPageRetry \/ QueryPageReturn
InitQueryRow == Start({"query_row"})
SpecQueryRow == InitQueryRow /\ [][NextQueryRow]_vars

\* RestAPIConnection::query_iter_ext and the stream it returns
NextRows ==
    \/ QueryIterStart \/ QueryIterStarted
    \/ StartQueryPost \/ StartQueryRetry \/ StartQueryReturn
    \/ PollNextRow \/ PollNextSpawn \/ PollNextRetry \/ PollNextPage \/ PollNextEnd
    \/ DropStream
    \/ ServerReplyPage
InitRows == Start({"query_iter_ext"})
SpecRows == InitRows /\ [][NextRows]_vars

\* The three ways to the rows of a query: APIClient::query, query_row and
\* the stream of query_iter_ext.
NextSchema == NextQuery \/ NextQueryRow \/ NextRows
InitSchema == Start({"query", "query_row", "query_iter_ext"})
SpecSchema == InitSchema /\ [][NextSchema]_vars

\* The same stream under a consumer that pulls again after an Err item.
InitRowsAgain ==
    /\ Caller({"query_iter_ext"}, FALSE)
    /\ cli = NoCli /\ url = NoUrl /\ json = NoJson /\ repolls = MaxRepolls /\ parked = NoTask /\ mutex = NoMutex
SpecRowsAgain == InitRowsAgain /\ [][NextRows]_vars

\* The stream under a consumer that never stops pulling: every step that
\* can be taken is taken in the end.  A page the server gives has no error
\* object: the pages served stay those of the chain.
NextRowsForever ==
    \/ QueryIterStart \/ QueryIterStarted
    \/ StartQueryPost \/ StartQueryRetry \/ StartQueryReturn
    \/ PollNextRow \/ PollNextSpawn \/ PollNextRetry \/ PollNextPage \/ PollNextEnd
    \/ (ServerReplyPage /\ (fut'.reply.parses => Succeeded(fut'.reply)))
    \/ HandleItems
SpecRowsForever == InitRows /\ [][NextRowsForever]_vars /\ WF_vars(NextRowsForever)

\* Two tasks run query_iter_ext on clones of one client and pull their
\* streams to the end, polled in any order.  The server gives each query the
\* id the client sent; no request fails in transit, so that no call sleeps
\* for a retry.
InitTwoQueries ==
    /\ Caller({"query_iter_ext"}, FALSE)
    /\ cli = NoCli /\ url = NoUrl /\ json = NoJson /\ repolls = 0
    /\ parked = [NoTask EXCEPT !.task = 2, !.op = "query_iter_ext"]
    /\ mutex = NoMutex
\* The pages this server gives: empty or full, with a session echo and
\* without kill_uri.
TwoQueriesPage(r) ==
    /\ r.status = 200 /\ r.parses /\ r.body.error = None
    /\ r.body.kill_uri = None
    /\ IsSome(r.body.session)
    /\ Len(r.body.data) \in {0, MaxRows}
NextTwoQueries ==
    \/ QueryIterStart \/ QueryIterStarted
    \/ (StartQueryPost /\ sq'.pc = "loop" /\ TwoQueriesPage(sq'.resp)
                       /\ sq'.resp.body.id = gen_query_id(uuids'))
    \/ StartQueryReturn
    \/ PollNextRow \/ PollNextSpawn \/ PollNextPage \/ PollNextEnd
    \/ (ServerReplyPage /\ (TwoQueriesPage(fut'.reply) \/ fut'.reply = HttpError(500)))
    \/ Yield
SpecTwoQueries == InitTwoQueries /\ [][NextTwoQueries]_vars

\* Tasks sharing one client call handle_session for the replies they get:
\* one merge at a time, and merges that overlap.
InitSession ==
    /\ op = "handle_session"
    /\ pc = "begin" /\ sq = NoFrame /\ fut = NoFuture /\ resp = NoResponse
    /\ saved = NoSaved /\ result = NoResult /\ uuids = 0
    /\ http = <<>> /\ served = <<>> /\ clean = TRUE
    /\ rows = NoRows /\ yielded = <<>>
    /\ tasks = [t \in Tasks |-> NoMerge]
    /\ echoed = <<>> /\ finished = <<>>
    /\ cli = NoCli /\ url = NoUrl /\ json = NoJson /\ repolls = 0 /\ parked = NoTask /\ mutex = NoMutex
    /\ \E db \in {None, Some(<<"db", 0>>)}, wh \in {None, Some(<<"wh", 0>>)} :
          Client(db, wh)
NextSessionSeq ==
    \E t \in Tasks :
        \/ HandleSessionEnterAlone(t)
        \/ HandleSessionState(t) \/ HandleSessionDatabase(t)
        \/ HandleSessionWarehouse(t)
SpecSessionSeq == InitSession /\ [][NextSessionSeq]_vars
NextSession ==
    \E t \in Tasks :
        \/ HandleSessionEnter(t)
        \/ HandleSessionState(t) \/ HandleSessionDatabase(t)
        \/ HandleSessionWarehouse(t)
SpecSession == InitSession /\ [][NextSession]_vars
\* Merges one at a time, each followed by at most one start_query request.
NextSessionSent == NextSessionSeq \/ StartQueryAfterMerge
SpecSessionSent == InitSession /\ [][NextSessionSent]_vars

\* Calls of tasks that share one client, lock by lock.
InitLocks ==
    /\ Caller({"locks"}, FALSE)
    /\ cli = NoCli /\ url = NoUrl /\ json = NoJson /\ repolls = 0 /\ parked = NoTask
    /\ mutex = NoMutex
NextLocks ==
    \E t \in Tasks :
        \/ MutexCall(t) \/ MutexLock(t)
        \/ MutexClone(t) \/ MutexWrite(t)
        \/ MutexSend(t) \/ MutexReply(t)
SpecLocks == InitLocks /\ [][NextLocks]_vars

\* upload_to_stage and load_data, with and without presigned urls
NextLoad ==
    \/ LoadDataStart \/ UploadToStage \/ GetPresignedUploadUrl
    \/ PresignUploadToStage \/ UploadToStageWithStream
    \/ InsertWithStagePost \/ InsertWithStageRetry \/ InsertWithStageFailed
    \/ InsertWithStagePosted
    \/ WaitForQueryEnter \/ WaitForQueryFirstPage \/ WaitForQueryLoop
    \/ WaitForQueryNextPage
    \/ QueryPageSend \/ ServerReplyPage \/ QueryPageRetry \/ QueryPageReturn
    \/ LoadDataReturn
InitLoad == \E disabled \in BOOLEAN : Configured(UploadOps, disabled)
SpecLoad == InitLoad /\ [][NextLoad]_vars

\* QueryKind::from on every statement of at most MaxTokens lexemes
Statements == UNION {[1..n -> Lexemes] : n \in 0..MaxTokens}
InitKind ==
    /\ Caller({"query_kind"}, FALSE) /\ url = NoUrl /\ json = NoJson /\ repolls = 0 /\ parked = NoTask /\ mutex = NoMutex
    /\ \E q \in Statements :
          cli = [NoCli EXCEPT !.pc = "from", !.queries = <<q>>]
NextKind == QueryKindCall
SpecKind == InitKind /\ [][NextKind]_vars

\* Session::handle_query on every statement of at most MaxTokens lexemes, in
\* either mode
InitHandleQuery ==
    /\ Caller({"handle_query"}, FALSE) /\ url = NoUrl /\ json = NoJson /\ repolls = 0 /\ parked = NoTask /\ mutex = NoMutex
    /\ \E q \in Statements, is_repl \in BOOLEAN :
          cli = [NoCli EXCEPT !.pc = "handle_query", !.is_repl = is_repl,
                              !.queries = <<q>>]
NextHandleQuery == HandleQueryCall
SpecHandleQuery == InitHandleQuery /\ [][NextHandleQuery]_vars

\* Session::handle_repl on one line of at most MaxStatements statements
ReplStatements ==
    {<<to_lowercase(Keyword.SELECT), SemiColon>>, <<Keyword.INSERT, SemiColon>>,
     <<txExit>>, <<Dot, idT>>}
Lines == UNION {[1..n -> ReplStatements] : n \in 1..MaxStatements}
InitRepl ==
    /\ Caller({"handle_repl"}, FALSE) /\ url = NoUrl /\ json = NoJson /\ repolls = 0 /\ parked = NoTask /\ mutex = NoMutex
    /\ \E line \in Lines, rest \in {<<>>, <<Keyword.SELECT>>} :
          cli = [NoCli EXCEPT !.pc = "for", !.is_repl = TRUE,
                              !.queries = line, !.query = rest]
NextRepl ==
    \/ ReplHandleQuery
    \/ ReplReconnect
    \/ ReplRetry
    \/ ReplLineDone
    \/ ReplEof
SpecRepl == InitRepl /\ [][NextRepl]_vars

\* APIClient::from_dsn on every DSN of at most MaxOptions options
Authorities ==
    {<<"", None, None, None>>,
     <<"username", Some(<<"3", "a", "%40">>), Some("app.databend.com"), None>>,
     <<"", None, Some("app.databend.com"), Some(443)>>,
     <<"username", None, Some("app.databend.com"), Some(8000)>>}
Paths == {<<>>, <<"/">>, <<"/", "test">>, <<"/", "/", "test">>}
OptionPairs ==
    {<<"wait_time_secs", "10">>, <<"wait_time_secs", "abc">>,
     <<"max_rows_in_buffer", "10">>, <<"max_rows_per_page", "10">>,
     <<"page_request_timeout_secs", "-1">>,
     <<"presigned_url_disabled", "true">>, <<"presigned_url_disabled", "0">>,
     <<"presigned_url_disabled", "TRUE">>,
     <<"tenant", "t">>, <<"warehouse", "wh">>,
     <<"sslmode", "disable">>, <<"sslmode", "enable">>,
     <<"sslmode", "require">>, <<"sslmode", "verify">>,
     <<"tls_ca_file", "ca.pem">>, <<"tls_ca_file", "missing.pem">>,
     <<"timezone", "UTC">>, <<"timezone", "CET">>, <<"SSLMODE", "disable">>}
Urls ==
    {Url(a[1], a[2], a[3], a[4], p, q) :
        a \in Authorities, p \in Paths,
        q \in UNION {[1..n -> OptionPairs] : n \in 0..MaxOptions}}
        \cup {NoUrl}
InitFromDsn ==
    /\ op = "from_dsn"
    /\ pc = "begin" /\ sq = NoFrame /\ fut = NoFuture /\ resp = NoResponse
    /\ saved = NoSaved /\ result = NoResult /\ uuids = 0
    /\ http = <<>> /\ served = <<>> /\ clean = TRUE
    /\ rows = NoRows /\ yielded = <<>>
    /\ tasks = [t \in Tasks |-> NoMerge]
    /\ echoed = <<>> /\ finished = <<>>
    /\ cli = NoCli
    /\ session_state = Default.session_state
    /\ database = Default.database
    /\ warehouse = Default.warehouse
    /\ dsn = [database |-> None, warehouse |-> None,
              presigned_url_disabled |-> Default.presigned_url_disabled]
    /\ url \in Urls
    /\ json = NoJson /\ repolls = 0 /\ parked = NoTask /\ mutex = NoMutex
NextFromDsn == FromDsn
SpecFromDsn == InitFromDsn /\ [][NextFromDsn]_vars

\* serde_json::to_string on every QueryRequest the builders can make
Maps == {None, Some({}), Some({<<"k", "v">>})}
Counts == {None, Some(1)}
SessionConfigs == {SessionState(d, s) : d \in {None, Some("default")}, s \in Maps}
PaginationConfigs == {PaginationConfig(w, b, p) : w \in Counts, b \in Counts, p \in Counts}
StageAttachmentConfigs ==
    {StageAttachmentConfig("@~/my_location", f, c) :
        f \in {None, Some({<<"type", "CSV">>})}, c \in {None, Some({<<"purge", "true">>})}}
Optional(S) == {None} \cup {Some(x) : x \in S}
QueryRequests ==
    {QueryRequest("select 1", s, p, a) :
        s \in Optional(SessionConfigs), p \in Optional(PaginationConfigs),
        a \in Optional(StageAttachmentConfigs)}
InitToString ==
    /\ Caller({"to_string"}, FALSE) /\ cli = NoCli /\ url = NoUrl
    /\ \E r \in QueryRequests : json = [NoJson EXCEPT !.pc = "req", !.req = r]
    /\ repolls = 0 /\ parked = NoTask /\ mutex = NoMutex
NextToString == SerdeToString
SpecToString == InitToString /\ [][NextToString]_vars

\* Session::stream_load_stdin on every stdin of at most MaxLines lines
Stdins ==
    UNION {[1..n -> {StdinLine("1,a"), StdinLine("2,b"), StdinError}] :
              n \in 0..MaxLines}
InitStreamLoad ==
    /\ Caller({"stream_load_stdin"}, FALSE) /\ url = NoUrl /\ json = NoJson /\ repolls = 0 /\ parked = NoTask /\ mutex = NoMutex
    /\ \E input \in Stdins :
          cli = [NoCli EXCEPT !.pc = "begin", !.stdin = input]
NextStreamLoad ==
    \/ StreamLoadStdinCreate
    \/ StreamLoadStdinLine
    \/ StreamLoadStdinLoad
    \/ StreamLoadStdinRemove
SpecStreamLoad == InitStreamLoad /\ [][NextStreamLoad]_vars

\* ------------------------------------------------------------------ claims
\* The rows of a chain of pages, in chain order.
RECURSIVE ChainData(_)
ChainData(pages) ==
    IF pages = <<>> THEN <<>> ELSE Head(pages).data \o ChainData(Tail(pages))

\* C1: when every request of APIClient::query succeeds, the data of the
\* response it returns is the concatenation, in chain order, of the data of
\* all the pages of the chain.
C1_QueryReturnsChainData ==
    (op = "query" /\ pc = "done" /\ clean /\ result.ok)
        => result.val.data = ChainData(served)

\* C3: a start-query call (start_query, the POST of insert_with_stage) issues
\* at most 4 POSTs; every reply before its last POST was a 503; a transport
\* failure or another non-200 status ends the call with an error and without
\* another POST.
C3_Posts ==
    /\ Len(sq.seen) <= StartRetries + 1
    /\ \A i \in 1..(Len(sq.seen) - 1) : sq.seen[i] = 503
    /\ (sq.pc = "ret" /\ Last(sq.seen) # 200) => ~sq.result.ok
C3_NoRetry ==
    (sq.pc = "loop" /\ sq.resp.status \notin {200, 503})
        => /\ sq'.seen \in {sq.seen, <<>>}
           /\ sq'.pc = "ret" => ~sq'.result.ok
           /\ sq'.pc = "idle" => (pc' = "done" /\ ~result'.ok)
C3_StartQueryPosts == []C3_Posts /\ [][C3_NoRetry]_vars
C3_FourPosts ==
    /\ op = "insert_with_stage"
    /\ Len(sq.seen) = StartRetries + 1
    /\ \A i \in 1..StartRetries : sq.seen[i] = 503

\* C4: in start_query a 503 received while fewer than 3 retries have been
\* used is followed by another POST, so the call never ends on a 503 before
\* its 4th POST; k 503s followed by a 200 make k+1 POSTs, and that 200 is
\* what the caller gets.
C4_Returned ==
    (op = "query" /\ sq.pc = "ret")
        => /\ Last(sq.seen) = 503 => Len(sq.seen) = StartRetries + 1
           /\ Last(sq.seen) = 200 =>
                /\ Len(sq.seen) = Cardinality({i \in DOMAIN sq.seen : sq.seen[i] = 503}) + 1
                /\ Len(sq.seen) <= StartRetries + 1
                /\ Succeeded(sq.resp) =>
                      (sq.result.ok /\ sq.result.val = Last(served))
C4_Retried ==
    (op = "query" /\ sq.pc = "loop" /\ sq.resp.status = 503
        /\ Len(sq.seen) - 1 < StartRetries)
        => Len(sq'.seen) = Len(sq.seen) + 1
C4_RetryOn503 == []C4_Returned /\ [][C4_Retried]_vars
C4_TwoRetriesThenOk ==
    /\ op = "query" /\ sq.pc = "ret"
    /\ sq.seen = <<503, 503, 200>>
    /\ sq.result.ok

\* C5 as claimed: a query_page call makes at most 3 GET attempts in total.
C5_AtMostThreeGets == fut.sent <= 3
\* C5 as amended: a query_page call makes at most 4 GET attempts in total,
\* the first one and at most 3 retries, each retry after a GET that failed in
\* transit or timed out.
C5_AtMostFourGets ==
    /\ fut.sent <= PageRetryDelays + 1
    /\ \A i \in 1..(fut.sent - 1) : fut.seen[i] = 0
C5_FourGets == fut.sent = PageRetryDelays + 1

\* C6: a 404 to a next-page GET makes query_page return SessionTimeout with
\* the text of the reply, and no GET follows a reply that has a status.
C6_NotFoundIsTerminal ==
    \A i \in 1..Len(fut.seen) :
        fut.seen[i] # 0 =>
            /\ i = Len(fut.seen)
            /\ fut.sent = i
            /\ fut.pc \in {"replied", "ret"}
            /\ (fut.pc = "ret" /\ fut.seen[i] = 404) =>
                  /\ fut.result.kind = "SessionTimeout"
                  /\ fut.result.val = fut.reply.text
            /\ (fut.pc = "ret" /\ fut.seen[i] # 404) =>
                  fut.result.kind # "SessionTimeout"
C6_NotFoundAfterRetry ==
    /\ fut.pc = "ret"
    /\ fut.seen = <<0, 404>>

\* C9: exec follows the chain to the page without next_uri and returns the
\* write_progress.rows of that page, a count and no rows; an error of
\* start_query or of a page fetch is what exec returns.
C9_Count ==
    (op = "exec" /\ pc = "done" /\ result.ok)
        => /\ served # <<>>
           /\ Last(served).next_uri = None
           /\ Len(http) = Len(served)
           /\ \A i \in 1..(Len(served) - 1) :
                 /\ http[i + 1].method = "GET"
                 /\ Some(http[i + 1].uri) = served[i].next_uri
           /\ result.val = Last(served).stats
C9_Error ==
    /\ (op = "exec" /\ sq.pc = "ret" /\ ~sq.result.ok /\ sq' # sq)
          => (pc' = "done" /\ ~result'.ok /\ result'.kind = sq.result.kind
              /\ result'.val = sq.result.val)
    /\ (op = "exec" /\ fut.pc = "ret" /\ ~fut.result.ok /\ fut' # fut)
          => (pc' = "done" /\ ~result'.ok /\ result'.kind = fut.result.kind
              /\ result'.val = fut.result.val)
C9_ExecReturnsFinalCount == []C9_Count /\ [][C9_Error]_vars
C9_ThreePages ==
    /\ op = "exec" /\ pc = "done" /\ result.ok
    /\ Len(served) = 3
    /\ \A i \in 1..3 : served[i].data # <<>>

\* C10: query_row asks for pages only until the first page with rows or the
\* end of the chain, and for none after it; the kill POST comes after the
\* last page fetch and before the return; the value returned is the first row
\* of the first page with rows, read against the schema of the first page,
\* or None when the chain ended without rows.
IsKill(req) == req.method = "POST" /\ req.uri[1] = "kill"
C10_QueryRow ==
    op = "query_row" =>
        /\ \A i \in 1..(Len(served) - 1) : served[i].data = <<>>
        /\ \A i \in 1..Len(http) :
              IsKill(http[i]) => (i = Len(http) /\ fut.pc = "none")
        /\ (pc = "done" /\ result.ok) =>
              /\ IsKill(Last(http))
              /\ Last(served).data = <<>> =>
                    (Last(served).next_uri = None /\ result.val = None)
              /\ Last(served).data # <<>> =>
                    result.val = Some(Row(served[1].schema, Last(served).data[1]))
C10_RowOfSecondPage ==
    /\ op = "query_row" /\ pc = "done" /\ result.ok
    /\ Len(served) = 2
    /\ result.val # None
    /\ Last(served).next_uri # None

\* The rows the stream has yielded, in the order it yielded them.
YieldedRows ==
    LET idx == {i \in DOMAIN yielded : yielded[i].item = "Row"}
        RECURSIVE Pick(_)
        Pick(i) == IF i > Len(yielded) THEN <<>>
                   ELSE IF i \in idx THEN <<yielded[i].val.values>> \o Pick(i + 1)
                   ELSE Pick(i + 1)
    IN Pick(1)
IsPrefix(s, t) == Len(s) <= Len(t) /\ SubSeq(t, 1, Len(s)) = s

\* C2: while no page fetch has returned an error, the rows the RestAPIRows
\* stream has yielded are the first rows of page 1, page 2, ... of the chain,
\* in that order; the stream ends only after the page without next_uri, and
\* by then it has yielded every row of every page exactly once.
C2_RowsInOrder ==
    (op = "query_iter_ext" /\ pc \in {"stream", "ended"} /\ ErrorCount(yielded) = 0)
        => /\ IsPrefix(YieldedRows, ChainData(served))
           /\ YieldedRows \o rows.data \in
                 {ChainData(served), ChainData(SubSeq(served, 1, Len(served) - 1))}
           /\ pc = "ended" =>
                 /\ Last(served).next_uri = None
                 /\ YieldedRows = ChainData(served)
C2_ThreeFullPages ==
    /\ op = "query_iter_ext" /\ pc = "ended" /\ ErrorCount(yielded) = 0
    /\ Len(served) = 3
    /\ \A i \in 1..3 : Len(served[i].data) = 2
    /\ Len(YieldedRows) = 6

\* The value the most recent echo that carried one gave, `dflt` if none did.
Latest(hist, get(_), dflt) ==
    LET idx == {i \in DOMAIN hist : IsSome(hist[i]) /\ IsSome(get(Unwrap(hist[i])))}
    IN IF idx = {} THEN dflt
       ELSE get(Unwrap(hist[CHOOSE i \in idx : \A j \in idx : j <= i]))
EchoDatabase(session) == session.database
EchoWarehouse(session) ==
    IF IsSome(session.settings)
    THEN MapGet(Unwrap(session.settings), "warehouse")
    ELSE None
Idle == \A t \in Tasks : tasks[t].pc = "idle"

\* C7: after replies merged one at a time, current_database() is the database
\* of the most recent echo that carried a database and current_warehouse()
\* the settings.warehouse of the most recent echo that carried one; each is
\* the value the DSN gave if no echo carried one.
C7_LatestEchoWins ==
    (op = "handle_session" /\ Idle)
        => /\ current_database = Latest(echoed, EchoDatabase, dsn.database)
           /\ current_warehouse = Latest(echoed, EchoWarehouse, dsn.warehouse)
C7_OlderEchoKept ==
    /\ op = "handle_session" /\ Idle
    /\ Len(echoed) = 3
    /\ IsSome(echoed[3]) /\ Unwrap(echoed[3]) = SessionState(None, Some({}))
    /\ current_database = Some(<<"db", 1>>)
    /\ current_warehouse = Some(<<"wh", 2>>)
    /\ dsn.database # current_database

\* C8: once the merges of several tasks have all completed, the stored
\* SessionState, the cached database and the cached warehouse all come from
\* the reply whose merge completed last, when every echo carries all fields.
CarriesAll(session) == IsSome(EchoDatabase(session)) /\ IsSome(EchoWarehouse(session))
C8_MergesLinearized ==
    (op = "handle_session" /\ Idle /\ finished # <<>>
        /\ \A i \in DOMAIN finished : CarriesAll(finished[i]))
        => /\ session_state = Last(finished)
           /\ database = EchoDatabase(Last(finished))
           /\ warehouse = EchoWarehouse(Last(finished))

\* C11: in query_row the kill is best-effort: once the kill POST has been
\* sent, whatever its reply, query_row returns the row it captured (None
\* when the chain ended without rows) and never an error.
C11_KillIsBestEffort ==
    (op = "query_row" /\ pc = "done" /\ http # <<>> /\ IsKill(Last(http)))
        => /\ result.ok
           /\ result.val = QueryRowResult(resp).val

\* C12: once a RestAPIRows stream has been dropped, with next_uri still set
\* or a page fetch in flight, its pending fetch is gone and no request is
\* sent any more: no next-page GET and no kill POST.
C12_Dropped == pc = "dropped" => fut = NoFuture
C12_Silent == pc = "dropped" => http' = http
C12_NoRequestAfterDrop == []C12_Dropped /\ [][C12_Silent]_vars
C12_DroppedInFlight ==
    /\ op = "query_iter_ext" /\ pc = "dropped"
    /\ IsSome(rows.next_uri)
    /\ clean /\ Len(http) = Len(served) + 1
    /\ Last(http).method = "GET"

\* The requests of an upload: the PRESIGN UPLOAD query, the PUT to a
\* presigned url, the multipart PUT to /v1/upload_to_stage.
IsPresignQuery(req) == "sql" \in DOMAIN req
IsPresignedPut(req) == req.method = "PUT" /\ req.uri[1] = "presigned"
IsProxiedPut(req) == req.method = "PUT" /\ req.uri = UploadUri
\* The PRESIGN UPLOAD query of this upload came back with one row of three
\* columns that names a method other than PUT.
PresignNamesOtherMethod ==
    /\ ~dsn.presigned_url_disabled
    /\ served # <<>>
    /\ Len(served[1].data) = 1
    /\ Len(served[1].data[1]) = 3
    /\ served[1].data[1][1] # "PUT"

\* C13: with presigned urls enabled, when the reply to PRESIGN UPLOAD names
\* a method other than PUT, upload_to_stage falls back to the multipart PUT
\* to /v1/upload_to_stage, and its result is the result of that PUT.
C13_FallsBackToProxied ==
    (op = "upload_to_stage" /\ pc = "done" /\ PresignNamesOtherMethod)
        => /\ \E i \in DOMAIN http : IsProxiedPut(http[i])
           /\ result.ok \/ result.kind # "Request" \/ result.val[1] # "Invalid method for presigned upload request"

\* C14: with presigned_url_disabled, an upload sends no PRESIGN UPLOAD query
\* and no PUT to a presigned url; upload_to_stage sends at most one request,
\* the multipart PUT to /v1/upload_to_stage with the stage name in its
\* header, and returns Ok exactly when that PUT was answered 200.
C14_ProxiedOnly ==
    (op \in UploadOps /\ dsn.presigned_url_disabled)
        => /\ \A i \in DOMAIN http :
                 ~IsPresignQuery(http[i]) /\ ~IsPresignedPut(http[i])
           /\ op = "upload_to_stage" =>
                 /\ Len(http) <= 1
                 /\ \A i \in DOMAIN http :
                       IsProxiedPut(http[i]) /\ http[i].stage_name = "~"
                 /\ pc = "done" => (result.ok <=> (Len(http) = 1 /\ clean))
C14_ProxiedUploadOk ==
    /\ op = "upload_to_stage" /\ dsn.presigned_url_disabled
    /\ pc = "done" /\ result.ok
    /\ Len(http) = 1 /\ IsProxiedPut(http[1])

\* The positions of the Stats items and of the Row items of `yielded`, and
\* the page a Row item comes from.
StatsAt == {i \in DOMAIN yielded : yielded[i].item = "Stats"}
RowsAt == {i \in DOMAIN yielded : yielded[i].item = "Row"}
PageOf(i) == yielded[i].val.values[1]
\* The pages the stream has taken from a fetch.
Installed == Cardinality(StatsAt) + 1

\* C15 as claimed: the Stats item of a page is yielded after the rows of
\* that page.
C15_StatsAfterOwnRows ==
    (op = "query_iter_ext" /\ ErrorCount(yielded) = 0)
        => \A i \in StatsAt : \A j \in RowsAt :
              PageWriteRows(PageOf(j)) = yielded[i].val => j < i
\* C15 as amended: the stream yields one Stats item for each page it fetched
\* after the first response, in the order of the pages, and the Stats item
\* of a page is yielded when the page is taken: after every row of the pages
\* before it and before the rows of that page.
C15_StatsAtPageBoundary ==
    (op = "query_iter_ext" /\ pc \in {"stream", "ended", "dropped"}
        /\ ErrorCount(yielded) = 0)
        => /\ Installed \in {Len(served), Len(served) - 1}
           /\ pc = "ended" => Installed = Len(served)
           /\ \A i \in StatsAt :
                 /\ yielded[i].val =
                       served[Cardinality({k \in StatsAt : k <= i}) + 1].stats
                 /\ \A j \in RowsAt :
                       j < i <=> PageOf(j) <= Cardinality({k \in StatsAt : k <= i})
C15_StatsBetweenRows ==
    /\ op = "query_iter_ext" /\ pc = "ended" /\ ErrorCount(yielded) = 0
    /\ Len(served) = 3
    /\ Cardinality(StatsAt) = 2
    /\ \A k \in 1..3 : \E j \in RowsAt : PageOf(j) = k

\* A reply that is a 200 whose body carries an error object.
CarriesError(r) == ~r.failed /\ r.status = 200 /\ r.parses /\ IsSome(r.body.error)

\* C16: when the reply a start_query or a query_page call ends with carries
\* an error object, the call returns InvalidResponse with that error and
\* leaves the stored SessionState, the cached database and the cached
\* warehouse as they were.
C16_Step ==
    /\ (sq.pc = "loop" /\ sq'.pc = "ret" /\ CarriesError(sq.resp))
          => /\ sq'.result.kind = "InvalidResponse"
             /\ sq'.result.val = Unwrap(sq.resp.body.error)
             /\ sessionVars' = sessionVars
    /\ (fut.pc = "replied" /\ fut'.pc = "ret" /\ CarriesError(fut.reply))
          => /\ fut'.result.kind = "InvalidResponse"
             /\ fut'.result.val = Unwrap(fut.reply.body.error)
             /\ sessionVars' = sessionVars
C16_ErrorReplyNotMerged == [][C16_Step]_vars

\* The INSERT POST of insert_with_stage: the one with a stage attachment.
IsInsert(req) ==
    req.method = "POST" /\ ~IsPresignQuery(req) /\ IsSome(req.stage_attachment)
IsUploadPut(req) == IsPresignedPut(req) \/ IsProxiedPut(req)

\* C17: load_data sends the INSERT with the stage attachment only after the
\* PUT of the data, and only when every request of the upload has succeeded;
\* an upload that fails ends load_data with an error, and no INSERT follows.
C17_InsertFollowsUpload ==
    op = "load_data" =>
        /\ \A i \in DOMAIN http :
              IsInsert(http[i]) =>
                  /\ i > 1 /\ IsUploadPut(http[i - 1])
                  /\ \A j \in 1..(i - 1) : ~IsInsert(http[j])
        /\ (pc = "done" /\ ~\E i \in DOMAIN http : IsInsert(http[i])) => ~result.ok
C17_Step ==
    op = "load_data" =>
        /\ (Len(http') > Len(http) /\ IsInsert(Last(http')))
              => (pc = "insert" /\ clean)
        /\ (pc \in {"presign", "put", "with_stream"} /\ ~clean')
              => (pc' = "done" /\ ~result'.ok)
        /\ pc = "done" => http' = http
C17_InsertOnlyAfterUpload == []C17_InsertFollowsUpload /\ [][C17_Step]_vars
C17_LoadedThroughPresignedUrl ==
    /\ op = "load_data" /\ pc = "done" /\ result.ok
    /\ Len(http) >= 3
    /\ IsPresignQuery(http[1]) /\ IsPresignedPut(http[2]) /\ IsInsert(http[3])

\* The 200 reply to the INSERT POST carried an error object.
InsertReplyCarriesError ==
    \E i \in DOMAIN served :
        IsSome(served[i].error) /\ served[i].schema = PageSchema(1)

\* C18: load_data returns InvalidResponse, and never Ok with statistics,
\* when the 200 reply to its INSERT POST carries an error object.
C18_InsertErrorIsReturned ==
    (op = "load_data" /\ pc = "done" /\ InsertReplyCarriesError)
        => (~result.ok /\ result.kind = "InvalidResponse")


\* The first lexeme of a statement that is not whitespace, None if it has none.
FirstLexeme(query) ==
    LET idx == {i \in DOMAIN query : query[i] # Space}
    IN IF idx = {} THEN None
       ELSE Some(query[CHOOSE i \in idx : \A j \in idx : i <= j])
C20_Table ==
    {<<Keyword.EXPLAIN, "Explain">>, <<Keyword.PUT, "Put">>, <<Keyword.GET, "Get">>,
     <<Keyword.ALTER, "Update">>, <<Keyword.DELETE, "Update">>, <<Keyword.UPDATE, "Update">>,
     <<Keyword.INSERT, "Update">>, <<Keyword.CREATE, "Update">>, <<Keyword.DROP, "Update">>,
     <<Keyword.OPTIMIZE, "Update">>}
SameIgnoringCase(a, b) == to_lowercase(a) = to_lowercase(b)

\* C20: QueryKind::from classifies a statement by its first token only,
\* without regard to case: EXPLAIN gives Explain, PUT gives Put, GET gives
\* Get, each of ALTER, DELETE, UPDATE, INSERT, CREATE, DROP, OPTIMIZE gives
\* Update, and every other first token, an empty statement and a tokenizer
\* error give Query.
C20_ClassifiedByFirstToken ==
    (op = "query_kind" /\ cli.pc = "kind")
        => LET first == FirstLexeme(cli.queries[1])
               entries == {e \in C20_Table :
                           IsSome(first) /\ SameIgnoringCase(Unwrap(first), e[1])}
           IN /\ \A e \in entries : cli.kind = Some(e[2])
              /\ entries = {} => cli.kind = Some("Query")
C20_LowerCaseFirstToken ==
    /\ op = "query_kind" /\ cli.pc = "kind"
    /\ cli.queries[1] = <<to_lowercase(Keyword.OPTIMIZE), Keyword.PUT>>
    /\ cli.kind = Some("Update")


\* Where in the log statement i was run, and where a reconnect was made for it.
RunsOf(i) == {k \in DOMAIN cli.log : cli.log[k].ev = "handle_query" /\ cli.log[k].i = i}
ReconnectsOf(i) == {k \in DOMAIN cli.log : cli.log[k].ev = "reconnect" /\ cli.log[k].i = i}
FirstOf(S) == CHOOSE k \in S : \A j \in S : k <= j
LastOf(S) == CHOOSE k \in S : \A j \in S : j <= k
FailedUnauthenticated(k) ==
    ~cli.log[k].ret.ok /\ Contains(cli.log[k].ret.text, "Unauthenticated")
\* The loop is done with statement i.
Settled(i) ==
    \/ i < cli.i
    \/ i = cli.i /\ cli.pc \in {"for", "readline", "bye"}
Shown(k, what, text) ==
    /\ k + 1 \in DOMAIN cli.log
    /\ cli.log[k + 1] = Eprintln(cli.log[k].i, what, text)

\* C19 as stated: a statement whose first run fails with an error containing
\* "Unauthenticated" is run exactly once more.
C19_RetriedExactlyOnce ==
    op = "handle_repl" =>
        \A i \in 1..cli.i :
            (Settled(i) /\ FailedUnauthenticated(FirstOf(RunsOf(i))))
                => Cardinality(RunsOf(i)) = 2

\* C19, amended: a statement is run at most twice and at most one reconnect
\* is made for it; the reconnect directly follows a first run that failed
\* with an error containing "Unauthenticated", and every such failure is
\* followed by one; the statement is run a second time, on the rebuilt
\* connection, exactly when the reconnect succeeded, and otherwise the
\* reconnect error is shown; a failure of the second run is shown and nothing
\* more is done for the statement.
C19_ReconnectAndRetryOnce ==
    op = "handle_repl" =>
        \A i \in 1..cli.i :
            LET runs == RunsOf(i)
                recs == ReconnectsOf(i)
                first == FirstOf(runs)
                second == LastOf(runs)
            IN /\ Cardinality(runs) \in {1, 2}
               /\ Cardinality(recs) <= 1
               /\ \A k \in recs : k = first + 1 /\ FailedUnauthenticated(first)
               /\ (Settled(i) /\ FailedUnauthenticated(first)) => recs # {}
               /\ Cardinality(runs) = 2 =>
                     /\ recs # {} /\ cli.log[first + 1].ok
                     /\ second = first + 2
                     /\ cli.log[second].conn = cli.log[first].conn + 1
                     /\ ~cli.log[second].ret.ok =>
                           /\ Shown(second, "error", cli.log[second].ret.text)
                           /\ \A k \in DOMAIN cli.log : k > second + 1 => cli.log[k].i > i
               /\ (Settled(i) /\ recs # {} /\ Cardinality(runs) = 1) =>
                     /\ ~cli.log[first + 1].ok
                     /\ first + 2 \in DOMAIN cli.log
                     /\ cli.log[first + 2].ev = "eprintln"
                     /\ cli.log[first + 2].what = "reconnect error"
\* Both runs of the first statement failed with "Unauthenticated", and the
\* loop went on to the second statement.
C19_RetryFailedAgain ==
    /\ op = "handle_repl" /\ cli.i = 2
    /\ Cardinality(RunsOf(1)) = 2
    /\ \A k \in RunsOf(1) : FailedUnauthenticated(k)
    /\ Cardinality(ReconnectsOf(1)) = 1
    /\ RunsOf(2) # {}

\* The value of the last option `k` of the DSN, None if it has none.
LastValue(pairs, k) ==
    LET idx == {i \in DOMAIN pairs : pairs[i][1] = k}
    IN IF idx = {} THEN None
       ELSE Some(pairs[CHOOSE i \in idx : \A j \in idx : j <= i][2])
\* The transport the DSN asks for: plain with sslmode=disable, tls otherwise.
Transport(u) ==
    IF LastValue(u.query_pairs, "sslmode") = Some("disable") THEN "http" ELSE "https"
Built == op = "from_dsn" /\ pc = "done" /\ result.ok

\* C21: from_dsn on a DSN without an explicit port sets port 80 when the
\* transport is plain and 443 when it is tls; an explicit port is kept
\* unchanged, and the endpoint is built from that scheme, host and port.
C21_PortAndEndpoint ==
    Built =>
        /\ result.val.port =
              IF IsSome(url.port) THEN Unwrap(url.port)
              ELSE IF Transport(url) = "http" THEN 80 ELSE 443
        /\ result.val.endpoint =
              <<Transport(url), result.val.host, result.val.port>>
C21_PlainWithoutPort ==
    /\ Built
    /\ url.port = None
    /\ url.query_pairs = <<<<"sslmode", "enable">>, <<"sslmode", "disable">>>>
    /\ result.val.endpoint = <<"http", "app.databend.com", 80>>


\* C22: from_dsn on a DSN that omits the user yields user = root, and on a
\* DSN that omits the host yields host = localhost; a user or host present in
\* the DSN replaces the default.
C22_DefaultUserAndHost ==
    Built =>
        /\ result.val.user = IF url.username = "" THEN "root" ELSE url.username
        /\ result.val.host = IF url.host = None THEN "localhost" ELSE Unwrap(url.host)


\* An enumerated option with a value outside its set, and a numeric option
\* with a value that is no number of its type.
BadEnumerated(p) ==
    \/ p[1] = "sslmode" /\ p[2] \notin {"disable", "enable", "require"}
    \/ p[1] = "presigned_url_disabled" /\ p[2] \notin {"true", "1", "false", "0"}
BadNumber(p) ==
    \/ p[1] \in {"wait_time_secs", "max_rows_in_buffer", "max_rows_per_page"}
          /\ ParseI64(p[2]) = None
    \/ p[1] = "page_request_timeout_secs" /\ ParseU64(p[2]) = None
FirstBad(pairs, Bad(_)) ==
    LET idx == {i \in DOMAIN pairs : Bad(pairs[i])}
    IN IF idx = {} THEN Len(pairs) + 1 ELSE CHOOSE i \in idx : \A j \in idx : i <= j

RECURSIVE WithoutLeadingSlash(_)
WithoutLeadingSlash(path) ==
    IF path = <<>> THEN <<>>
    ELSE IF path[1] = "/" THEN WithoutLeadingSlash(SubSeq(path, 2, Len(path)))
    ELSE path
RecognizedOptions ==
    {"wait_time_secs", "max_rows_in_buffer", "max_rows_per_page",
     "page_request_timeout_secs", "presigned_url_disabled", "tenant",
     "warehouse", "sslmode", "tls_ca_file"}

\* C24: the settings of the initial SessionState hold every option of the
\* DSN whose key is not a recognized option, with its (last) value, and
\* nothing else; the database of the initial SessionState is the path of the
\* DSN without leading slash, and absent when nothing is left of the path.
C24_SettingsAndDatabase ==
    Built =>
        LET pairs == url.query_pairs
            keys == {pairs[i][1] : i \in DOMAIN pairs} \ RecognizedOptions
            db == WithoutLeadingSlash(url.path)
        IN /\ session_state.settings =
                 Some({<<k, Unwrap(LastValue(pairs, k))>> : k \in keys})
           /\ \A p \in Unwrap(session_state.settings) : p[1] \notin RecognizedOptions
           /\ session_state.database = IF db = <<>> THEN None ELSE Some(db)
           /\ session_state = result.val.session_state
C24_SettingNextToWarehouse ==
    /\ Built
    /\ url.path = <<"/", "test">>
    /\ url.query_pairs = <<<<"warehouse", "wh">>, <<"SSLMODE", "disable">>>>
    /\ session_state = SessionState(Some(<<"test">>), Some({<<"SSLMODE", "disable">>}))
    /\ warehouse = Some("wh")

\* The keys of a JSON object, the value of a member, and whether the object
\* has a member that is null.
JsonKeys(obj) == {obj[2][i][1] : i \in DOMAIN obj[2]}
JsonValue(obj, k) == obj[2][CHOOSE i \in DOMAIN obj[2] : obj[2][i][1] = k][2]
Has(obj, k, o) == (k \in JsonKeys(obj)) <=> IsSome(o)
HasNull(obj) == \E i \in DOMAIN obj[2] : obj[2][i][2] = JsonNull
Serialized == op = "to_string" /\ json.pc = "text"

\* C25: the text of a QueryRequest always has sql, and has each optional
\* member (session, pagination, stage_attachment, and inside them database,
\* settings, wait_time_secs, max_rows_in_buffer, max_rows_per_page,
\* file_format_options, copy_options) exactly when the member is not None;
\* no member is null.
C25_NoneIsOmitted ==
    Serialized =>
        LET r == json.req
            t == json.text
        IN /\ "sql" \in JsonKeys(t) /\ JsonValue(t, "sql") = JsonString(r.sql)
           /\ ~HasNull(t)
           /\ Has(t, "session", r.session)
           /\ Has(t, "pagination", r.pagination)
           /\ Has(t, "stage_attachment", r.stage_attachment)
           /\ IsSome(r.session) =>
                 LET s == JsonValue(t, "session")
                 IN /\ ~HasNull(s)
                    /\ Has(s, "database", Unwrap(r.session).database)
                    /\ Has(s, "settings", Unwrap(r.session).settings)
           /\ IsSome(r.pagination) =>
                 LET p == JsonValue(t, "pagination")
                 IN /\ ~HasNull(p)
                    /\ \A k \in {"wait_time_secs", "max_rows_in_buffer",
                                 "max_rows_per_page"} :
                          Has(p, k, Unwrap(r.pagination)[k])
           /\ IsSome(r.stage_attachment) =>
                 LET a == JsonValue(t, "stage_attachment")
                 IN /\ ~HasNull(a)
                    /\ "location" \in JsonKeys(a)
                    /\ \A k \in {"file_format_options", "copy_options"} :
                          Has(a, k, Unwrap(r.stage_attachment)[k])
C25_SomeMembersNone ==
    /\ Serialized
    /\ json.req = QueryRequest("select 1",
                               Some(SessionState(None, Some({}))),
                               None,
                               Some(StageAttachmentConfig("@~/my_location", None, None)))
    /\ json.text =
          JsonObject(<<
              <<"session", JsonObject(<<<<"settings", JsonMap({})>>>>)>>,
              <<"sql", JsonString("select 1")>>,
              <<"stage_attachment",
                JsonObject(<<<<"location", JsonString("@~/my_location")>>>>)>> >>)


\* C26: whenever stream_load_stdin returns after it has created the
\* temporary file, the file is gone.
C26_TempFileRemoved ==
    (op = "stream_load_stdin" /\ cli.pc = "returned" /\ cli.created)
        => cli.file = None


\* The upload has made its PRESIGN UPLOAD query, and the query came back
\* with exactly one row of exactly three columns, the first of them "PUT".
PresignQueried == \E i \in DOMAIN http : IsPresignQuery(http[i])
OneRowOfPut ==
    /\ served # <<>>
    /\ Len(served[1].data) = 1
    /\ Len(served[1].data[1]) = 3
    /\ served[1].data[1][1] = "PUT"

\* C28: unless the PRESIGN UPLOAD result has exactly one row of exactly
\* three columns whose first is "PUT", the upload ends with an error and no
\* PUT of the data is sent; a PUT to a presigned url is sent only after such
\* a result, to the url and with the headers of that row.
C28_PresignRowChecked ==
    (op \in UploadOps /\ ~dsn.presigned_url_disabled /\ PresignQueried) =>
        /\ ~OneRowOfPut =>
              /\ pc = "done" /\ ~result.ok
              /\ \A i \in DOMAIN http : ~IsUploadPut(http[i]) /\ ~IsInsert(http[i])
        /\ \A i \in DOMAIN http :
              IsPresignedPut(http[i]) =>
                 /\ OneRowOfPut
                 /\ http[i].headers = served[1].data[1][2]
                 /\ http[i].uri = <<"presigned", served[1].data[1][3]>>
C28_PutToPresignedUrl ==
    /\ op = "upload_to_stage" /\ pc = "done" /\ result.ok
    /\ OneRowOfPut
    /\ Len(http) = 2 /\ IsPresignQuery(http[1]) /\ IsPresignedPut(http[2])
    /\ http[2].uri = <<"presigned", "https://storage/stage">>


\* The page GETs the server has seen and the items a finished fetch gives.
PageGets(reqs) == {i \in DOMAIN reqs : reqs[i].method = "GET"}
FetchItems(items) == {i \in DOMAIN items : items[i].item \in {"Stats", "Err"}}
FetchStarts == fut.pc = "none" /\ fut'.pc # "none"
GetLogged ==
    /\ Len(http') > Len(http)
    /\ http'[Len(http')].method = "GET"
GetSent == fut'.pc = "inflight" /\ fut.pc # "inflight"

\* C30: a stream has at most one page fetch in flight: every page GET but
\* the last has ended in a Stats or an Err item, and a stream without a
\* fetch has none open.  A fetch is started, and a GET is sent, only in a
\* pull of a live stream whose buffer is empty; a fetch is started only when
\* none is in flight and next_uri is set, for that next_uri.
C30_AtMostOneFetch ==
    /\ Cardinality(PageGets(http)) <= Cardinality(FetchItems(yielded)) + 1
    /\ (pc = "stream" /\ fut.pc = "none")
          => Cardinality(PageGets(http)) = Cardinality(FetchItems(yielded))
    /\ fut.pc # "none" => pc = "stream" /\ rows.data = <<>>
C30_FetchOnlyOnEmptyPull ==
    /\ []C30_AtMostOneFetch
    /\ [][/\ GetLogged => FetchStarts
          /\ GetSent => pc = "stream" /\ rows.data = <<>>
          /\ FetchStarts =>
                /\ pc = "stream"
                /\ rows.data = <<>>
                /\ IsSome(rows.next_uri)
                /\ GetLogged
                /\ http'[Len(http')].uri = Unwrap(rows.next_uri)
                /\ http'[Len(http')].query_id = rows.query_id]_vars
\* Witness: the rows of a page have been yielded and the next page is asked
\* for.
C30_FetchAfterRows ==
    /\ pc = "stream" /\ fut.pc = "inflight" /\ rows.data = <<>>
    /\ \E i \in DOMAIN yielded : yielded[i].item = "Row"
    /\ PageGets(http) # {}


\* C29: a stream follows each next_uri at most once: no two of its page
\* fetches ask for the same next_uri, whatever the first one came to.
C29_NextUriFollowedOnce ==
    \A i, j \in PageGets(http) : http[i].uri = http[j].uri => i = j


\* The page GETs of a task in the order it sent them, and the values of the
\* rows among the items it has pulled.
GetsOf(t) == SelectSeq(t.http, LAMBDA q : q.method = "GET")
RowsOf(t) ==
    LET got == SelectSeq(t.yielded, LAMBDA y : y.item = "Row")
    IN [k \in DOMAIN got |-> got[k].val.values]
\* The task's k-th GET asks for the next_uri of the k-th page the server gave
\* to this task, under the id of that page, which is the id of its own POST;
\* its rows are the rows of its own pages in order, all of them at the end.
OwnChain(t) ==
    /\ Len(GetsOf(t)) <= Len(t.served)
    /\ \A k \in DOMAIN GetsOf(t) :
          /\ t.served[k].next_uri = Some(GetsOf(t)[k].uri)
          /\ GetsOf(t)[k].query_id = t.served[k].id
          /\ GetsOf(t)[k].query_id = t.http[1].query_id
    /\ IsPrefix(RowsOf(t), ChainData(t.served))
    /\ t.pc = "ended" =>
          /\ RowsOf(t) = ChainData(t.served)
          /\ Last(t.served).next_uri = None

\* C27: two queries that run concurrently on clones of one client have chains
\* of their own: in every interleaving each stream asks only for the next_uri
\* of its own query's latest page, under its own query id, the two ids
\* differ, and each stream yields the rows of its own pages in order.
C27_IndependentChains ==
    /\ OwnChain(TaskState(3 - parked.task))
    /\ OwnChain(parked)
    /\ (http # <<>> /\ parked.http # <<>>)
          => http[1].query_id # parked.http[1].query_id
\* Witness: both streams have yielded rows and both have a page fetch in
\* flight.
C27_BothFetching ==
    /\ fut.pc = "inflight" /\ parked.fut.pc = "inflight"
    /\ RowsOf(TaskState(1)) # <<>> /\ RowsOf(parked) # <<>>
    /\ Len(GetsOf(parked)) = 2


\* C31: the stream is finite: whatever the server answers over a chain of
\* finitely many pages, a consumer that keeps pulling reaches the end of the
\* stream (or query_iter_ext returned an error and there is no stream).
C31_StreamEnds == <>(pc \in {"ended", "done"})


\* C32: the schema of a query is the schema of its first response: every row
\* the stream yields is read against it, whatever page the row came with,
\* and the responses wait_for_data and wait_for_query return carry it; the
\* schema of a later page never takes its place.
C32_SchemaOfFirstResponse ==
    /\ (op = "query_iter_ext" /\ pc \in {"stream", "ended", "dropped"}) =>
          /\ rows.schema = served[1].schema
          /\ \A i \in DOMAIN yielded :
                yielded[i].item = "Row" => yielded[i].val.schema = served[1].schema
    /\ (op = "query_row" /\ pc \in {"kill", "row"}) => resp.schema = served[1].schema
    /\ (op = "query_row" /\ pc = "done" /\ result.ok /\ IsSome(result.val)) =>
          Unwrap(result.val).schema = served[1].schema
    /\ (op = "query" /\ pc = "done" /\ result.ok) =>
          result.val.schema = served[1].schema
\* Witness: the stream has yielded a row of the third page.
C32_RowOfThirdPage ==
    /\ op = "query_iter_ext" /\ pc = "stream"
    /\ \E i \in DOMAIN yielded :
          yielded[i].item = "Row" /\ yielded[i].val.values[1] = 3
    /\ served[3].schema # served[1].schema


\* A task whose request is in flight, and the requests of such tasks.
InFlight(t) == mutex.task[t].steps # <<>> /\ NextStep(t)[1] = "await"
Waits(t) == mutex.task[t].steps # <<>> /\ NextStep(t)[1] = "lock"

\* C34: no task holds the session_state lock, the database lock or the
\* warehouse lock while a request of its own (start POST, page GET, kill
\* POST, upload PUT) is in flight.
C34_NoLockAcrossIO == \A t \in Tasks : InFlight(t) => HeldBy(t) = {}
\* Witness: the POST of a start_query is in flight while another task is
\* inside a block of handle_session.
C34_PostInFlightOtherLocked ==
    \E t, u \in Tasks :
        /\ InFlight(t) /\ mutex.task[t].call = "start_query"
        /\ u # t /\ HeldBy(u) # {} /\ NextStep(u)[1] = "write"


\* The locks a list of steps takes, in the order it takes them.
LocksTaken(steps) ==
    LET taken == SelectSeq(steps, LAMBDA st : st[1] = "lock")
    IN [i \in DOMAIN taken |-> LockOrder(taken[i][2])]
Ascending(ns) == \A i, j \in DOMAIN ns : i < j => ns[i] < ns[j]
\* A step some task can take.
CanStep(t) ==
    /\ mutex.task[t].steps # <<>>
    /\ Waits(t) => mutex.held[NextStep(t)[2]] = 0

\* C35: a task holds at most the locks that come before the one it asks
\* for, in the order session_state, database, warehouse; handle_session
\* takes its locks in that order; and the calls never deadlock: while a
\* call has a step left, some call can take a step, and the holder of a lock
\* is never waiting for one.
C35_LockOrderNoDeadlock ==
    /\ \A t \in Tasks :
          Waits(t) => \A l \in HeldBy(t) : LockOrder(l) < LockOrder(NextStep(t)[2])
    /\ \A t \in Tasks :
          mutex.task[t].call = "handle_session" =>
              Ascending(LocksTaken(mutex.task[t].steps))
    /\ \A t \in Tasks : IsSome(mutex.task[t].echo) =>
              Ascending(LocksTaken(mutex.task[t].steps))
    /\ (\E t \in Tasks : mutex.task[t].steps # <<>>) => \E t \in Tasks : CanStep(t)
    /\ \A t \in Tasks : HeldBy(t) # {} => ~Waits(t)
\* Witness: a task waits for the warehouse lock while another task holds it
\* in the last block of handle_session.
C35_WaitsForHeldLock ==
    \E t, u \in Tasks :
        /\ t # u
        /\ Waits(t) /\ NextStep(t)[2] = "warehouse"
        /\ mutex.held["warehouse"] = u
        /\ IsSome(mutex.task[u].echo)


\* The session and the warehouse of the client after the merges of some of
\* the echoes `es`, one whole merge after the other, from the state `c`.
RECURSIVE MergedStates(_, _)
MergedStates(c, es) ==
    {c} \cup UNION {MergedStates([session |-> MergeSessionState(c.session, e),
                                  warehouse |-> MergeWarehouse(c.warehouse, e)],
                                 es \ {e}) : e \in es}
Composed(t) ==
    /\ mutex.task[t].call = "start_query"
    /\ mutex.task[t].steps # <<>>
    /\ NextStep(t)[1] \in {"send", "await"}

\* C33: the session in the body of a start-query request and the warehouse
\* in its header are those of one state of the client: the state at
\* construction or the state after the merge of a reply, also when another
\* task merges a reply while the request is composed.
C33_ConsistentSnapshot ==
    \A t \in Tasks :
        Composed(t) =>
            [session |-> Unwrap(mutex.task[t].session),
             warehouse |-> mutex.task[t].warehouse]
                \in MergedStates([session |-> SessionState(dsn.database, Some({})),
                                  warehouse |-> dsn.warehouse],
                                 {echoed[i] : i \in DOMAIN echoed})


\* C36: every request that follows the start POST of a query (a page GET,
\* the kill POST) has in its query-id header the id the start POST had,
\* whatever id the responses of the server name.
C36_FollowUpsCarryStartId ==
    \A i \in DOMAIN http : http[i].query_id = http[1].query_id


\* ------------------------------------------------------------ C37, C38
\* What the one call of handle_query returned, once it has returned.
HandleQueryReturned == op = "handle_query" /\ cli.pc = "returned"
HandleQueryRet == cli.log[1].ret

\* C37: of the statements handle_query classifies, exec runs exactly those
\* classified Update in non-interactive mode; every other one that is not
\* Put or Get, an Update in interactive mode and an Explain included, runs
\* through query_iter_ext; each return names one call, so none runs by both.
C37_ExecIffUpdateBatch ==
    (HandleQueryReturned /\ IsSome(HandleQueryRet.kind)) =>
        LET kind == Unwrap(HandleQueryRet.kind)
            call == HandleQueryRet.call
            batch_update == kind = "Update" /\ ~cli.is_repl
        IN /\ call = "exec" <=> batch_update
           /\ (~batch_update /\ kind \notin {"Put", "Get"})
                 => call = "query_iter_ext"
           /\ call = "query_iter_ext"
                 => (~batch_update /\ kind \notin {"Put", "Get"})
\* An Update of interactive mode went through query_iter_ext.
C37_InteractiveUpdateIterated ==
    /\ HandleQueryReturned /\ cli.is_repl
    /\ HandleQueryRet.kind = Some("Update")
    /\ HandleQueryRet.call = "query_iter_ext"

\* C38: a successful exec of an Update in non-interactive mode is followed
\* by a report of the affected rows and the elapsed time.
C38_ExecReported ==
    (HandleQueryReturned /\ ~cli.is_repl
        /\ HandleQueryRet.call = "exec" /\ HandleQueryRet.ok)
      => HandleQueryRet.printed \in {"rows affected in", "processed in"}


\* ----------------------------------------------------------------- C39
\* The replies with status 200 and no error object that echoed a session.
SuccessfulEchoes ==
    {i \in DOMAIN served : served[i].error = None /\ IsSome(served[i].session)}
LastSuccessfulEcho ==
    Unwrap(served[CHOOSE i \in SuccessfulEchoes :
                      \A j \in SuccessfulEchoes : j <= i].session)

\* C39: when load_data returns Ok, the stored SessionState is the session of
\* the last successful reply that echoed one, whether that reply answered a
\* start_query, a query_page or the INSERT POST of insert_with_stage.
C39_EveryEchoMerged ==
    (op = "load_data" /\ pc = "done" /\ result.ok /\ SuccessfulEchoes # {})
        => session_state = LastSuccessfulEcho


\* ----------------------------------------------------------------- C40
\* The last echo merged, None when no reply has echoed a session.
LastEcho ==
    LET idx == {i \in DOMAIN echoed : IsSome(echoed[i])}
    IN IF idx = {} THEN None
       ELSE echoed[CHOOSE i \in idx : \A j \in idx : j <= i]
RequestSent == http' # http

\* C40: no merge takes a cached database or a cached warehouse that holds a
\* value back to absent, while the stored SessionState is the last echo as
\* a whole: the start_query request that follows an echo sends that echo as
\* its session, without a database when the echo had none, and
\* current_database() still returns the database of the latest echo that
\* carried one.
C40_Step ==
    /\ IsSome(database) => IsSome(database')
    /\ IsSome(warehouse) => IsSome(warehouse')
    /\ (RequestSent /\ IsSome(LastEcho))
          => /\ Last(http').session = LastEcho
             /\ current_database' = Latest(echoed, EchoDatabase, dsn.database)
             /\ current_warehouse' = Latest(echoed, EchoWarehouse, dsn.warehouse)
C40_CacheNeverResetToAbsent == [][C40_Step]_vars
\* The request after an echo without a database and without a warehouse
\* carries a session that has neither, while the client still answers with
\* the database and the warehouse of the first echo.
C40_StaleCacheAfterBareEcho ==
    /\ op = "handle_session"
    /\ Len(echoed) = 2 /\ Len(http) = 2
    /\ echoed[1] = Some(SessionState(Some(<<"db", 1>>),
                                     Some({<<"warehouse", <<"wh", 1>>>>})))
    /\ echoed[2] = Some(SessionState(None, Some({})))
    /\ http[2].session = echoed[2]
    /\ http[2].warehouse = Some(<<"wh", 1>>)
    /\ current_database = Some(<<"db", 1>>)
    /\ current_warehouse = Some(<<"wh", 1>>)

====
